---- MODULE Spec2Model ----
(***************************************************************************)
(* Model of the realtime synchronisation client of this repository         *)
(* (src/unnamed/part_003): the HocuspocusProviderWebsocket connection      *)
(* manager, the retry loop it drives, and the HocuspocusProvider document  *)
(* sessions attached to it.                                                *)
(*                                                                         *)
(* Every handler of the source is an operator from a snapshot of the       *)
(* program state (a record m) to the snapshot after the handler returned;  *)
(* an action applies one handler, together with the microtasks it leaves   *)
(* behind, and commits the result.                                         *)
(***************************************************************************)
EXTENDS Integers, Sequences, FiniteSets, TLC

\* ---------------------------------------------------------------- bounds
MaxSockets == 3      \* WebSocket objects created in one behaviour
MaxSends == 4        \* frames handed to HocuspocusProvider.send in one behaviour
MaxTime == 2         \* distinct readings of the clock (getUnixTime)
MaxTimers == 1       \* reconnect timers, and sleeping retry loops, pending at once
MaxUnsynced == 2     \* cap of a session's unsyncedChanges counter
MaxPending == 1      \* onOpen calls of one session waiting for their token
MaxClock == 2        \* cap of the awareness clock of a client
MaxOption == 3       \* largest value of a retry option (delay, factor, minDelay, maxDelay)
MaxFailures == 3     \* failed attempts of one retry loop
MaxMoves == 1        \* moves applied to one game (entries of moveHistory)
MaxBytes == 2        \* bytes of a buffer handed to a decoder
MaxPlay == 2         \* moves applied to one game that starts on the full board

\* ------------------------------------------------------- program constants
messageReconnectTimeout == 30000
ForcedCloseCode == 4408
NormalCloseCode == 1000

Sessions == {"p1", "p2"}
\* The document names a session is configured with.
DocNames == {"doc-1", "doc-2"}
\* configuration.name when each session has a document of its own, and when
\* the two sessions are configured with one document name.
OwnNames == [s \in Sessions |-> IF s = "p1" THEN "doc-1" ELSE "doc-2"]
SharedNames == [s \in Sessions |-> "doc-1"]
\* The session that the one-session specifications attach.
FirstSession == {"p1"}

\* this.webSocket = null
Null == [identifier |-> 0, readyState |-> "Closed", sent |-> <<>>]
NoProvider == "none"

Connecting == "connecting"
Connected == "connected"
Disconnected == "disconnected"
WebSocketStatus == {Connecting, Connected, Disconnected}

\* WsReadyStates of the channel
WsConnecting == "Connecting"
WsOpen == "Open"
WsClosing == "Closing"
WsClosed == "Closed"

OutgoingTypes == {"Auth", "SyncStepOne", "Update", "Awareness", "Close"}
IncomingTypes == {"Stateless", "SyncStepTwo", "SyncStatus"}
\* Every frame a session can receive. The three Sync frames are named by
\* their step; an Awareness frame either carries news for the session's
\* store ("Awareness") or nothing the store does not know ("AwarenessKnown");
\* an Auth frame says "Authenticated" or "PermissionDenied".
SyncTypes == {"SyncStepOne", "SyncStepTwo", "Update"}
ReceivedTypes == SyncTypes \cup IncomingTypes \cup
  {"Awareness", "AwarenessKnown", "Authenticated", "PermissionDenied",
   "QueryAwareness", "Close"}
\* The frames that are not well formed: a message type the receiver does not
\* know, a Sync frame with an unknown step, and the frames whose bytes end
\* where the payload should begin.
TruncatedSyncTypes == {"SyncStepOneTruncated", "SyncStepTwoTruncated", "UpdateTruncated"}
BadTypes == {"Unknown", "SyncUnknown", "AwarenessTruncated", "StatelessTruncated",
             "SyncStatusTruncated", "CloseTruncated"} \cup TruncatedSyncTypes
FrameTypes == ReceivedTypes \cup BadTypes

\* The fields of the manager and of the sessions, the retry loops and timers
\* of the runtime, and what the properties need to remember: latestRetry (the
\* loop started by the most recent connect()), sendCount (frames handed to
\* the sessions' send), disconnectCode (the close code of the last disconnect
\* event emitted), destroyed, staleChecks (watchdog evaluations of a silent
\* link since the last close event),
\* closedWhileConnected (the last step closed a Connected manager that wants a
\* connection), replayed (the last step was an attach that replayed the
\* recorded open event) and acks (the positive SyncStatus frames a session
\* received since the last open event of the channel), thrown (the
\* handler of the last step ended with an error thrown by the receiver) and
\* events (how often the last step called each session's token provider and
\* emitted its authenticationFailed event, in the behaviours that count them).
\* names is configuration.name of each session.
\* awareness is the store of one Awareness instance (states and meta by client
\* id) and awarenessUpdates the 'update' events it emitted in the last step,
\* each with the frame that awarenessUpdateHandler encodes for it.
\* codec is a number with the bytes writeVarUint produced for it and what
\* readVarUint made of these bytes.
\* backoff is one retry loop: the options connect() hands to retry, the
\* number of attempts made and the waits after the failed ones.
\* gameState, players and spectators are the shared state of the checkers
\* block, localSelectedPiece and localValidMoves the selection each user's
\* component holds, and lastWriter the user whose handler last wrote the
\* shared gameState.
VARIABLES
  status, shouldConnect, webSocket, messageQueue, connectionAttempt,
  cancelWebsocketRetry, receivedOnOpenPayload, lastMessageReceived,
  identifier, closeTries, callbacks, connectionChecker, providerMap,
  retries, reconnectTimers, now,
  isAttached, listening, isAuthenticated, isSynced, unsyncedChanges,
  localState, tokenPending,
  sendCount, disconnectCode, destroyed,
  latestRetry, closedWhileConnected, staleChecks, replayed, acks, thrown, events,
  names, awareness, awarenessUpdates, codec, backoff,
  gameState, players, spectators, localSelectedPiece, localValidMoves, lastWriter

sessionVars == <<status, shouldConnect, webSocket, messageQueue, connectionAttempt,
  cancelWebsocketRetry, receivedOnOpenPayload, lastMessageReceived,
  identifier, closeTries, callbacks, connectionChecker, providerMap,
  retries, reconnectTimers, now,
  isAttached, listening, isAuthenticated, isSynced, unsyncedChanges,
  localState, tokenPending,
  sendCount, disconnectCode, destroyed,
  latestRetry, closedWhileConnected, staleChecks, replayed, acks, thrown, events,
  names>>

gameVars == <<gameState, players, spectators, localSelectedPiece, localValidMoves,
  lastWriter>>

syncVars == <<sessionVars, awareness, awarenessUpdates, codec, backoff>>

vars == <<syncVars, gameVars>>

\* provider.configuration.name
Name(s) == names[s]

\* No session has called its token provider or emitted authenticationFailed.
NoEvents == [s \in Sessions |-> [getToken |-> 0, authenticationFailed |-> 0]]

\* The value of events in the behaviours that do not count them.
NotRecorded == [s \in Sessions |-> [getToken |-> -1, authenticationFailed |-> -1]]

\* The snapshot of the program state the handlers work on.
St == [status |-> status, shouldConnect |-> shouldConnect,
  webSocket |-> webSocket, messageQueue |-> messageQueue,
  connectionAttempt |-> connectionAttempt,
  cancelWebsocketRetry |-> cancelWebsocketRetry,
  receivedOnOpenPayload |-> receivedOnOpenPayload,
  lastMessageReceived |-> lastMessageReceived, identifier |-> identifier,
  closeTries |-> closeTries, callbacks |-> callbacks,
  connectionChecker |-> connectionChecker, providerMap |-> providerMap,
  retries |-> retries, reconnectTimers |-> reconnectTimers, now |-> now,
  isAttached |-> isAttached, listening |-> listening,
  isAuthenticated |-> isAuthenticated, isSynced |-> isSynced,
  unsyncedChanges |-> unsyncedChanges, localState |-> localState,
  tokenPending |-> tokenPending, sendCount |-> sendCount,
  disconnectCode |-> disconnectCode, destroyed |-> destroyed,
  latestRetry |-> latestRetry, closedWhileConnected |-> FALSE,
  staleChecks |-> staleChecks, replayed |-> FALSE, acks |-> acks,
  opening |-> <<>>, encoder |-> <<>>, thrown |-> FALSE, events |-> NoEvents]

\* ------------------------------------------------------------ the channel
\* WebSocket.close(): an open or connecting channel starts closing.
wsClose(ws) ==
  IF ws = Null THEN Null
  ELSE IF ws.readyState \in {WsConnecting, WsOpen}
       THEN [ws EXCEPT !.readyState = WsClosing]
       ELSE ws

\* ------------------------------------------------------ the retry loops
\* retries[l] is the retry loop started by one call of connect(): "awaiting"
\* the promise of attempt `attempt`, "sleeping" between two attempts, or
\* "done" (resolved or aborted). Slot l is "free" when no loop uses it; a
\* loop that is over keeps its slot while this.cancelWebsocketRetry refers
\* to it.
FreeLoop == [st |-> "free", attempt |-> 0, cancelAttempt |-> FALSE]
DoneLoop == [st |-> "done", attempt |-> 0, cancelAttempt |-> FALSE]
LoopIds == 1..(MaxSockets + 1)

newLoop(m) == CHOOSE l \in LoopIds :
  /\ m.retries[l].st = "free"
  /\ \A k \in LoopIds : k < l => m.retries[k].st # "free"

\* A loop is over when its promise is settled ("done"), when it sleeps with
\* cancelAttempt set (beforeAttempt will abort it), or when it awaits an
\* attempt nobody can settle any more: the channel of the attempt has lost its
\* listeners and this.connectionAttempt holds another attempt.
over(m, l) ==
  \/ m.retries[l].st = "done"
  \/ m.retries[l].st = "sleeping" /\ m.retries[l].cancelAttempt
  \/ /\ m.retries[l].st = "awaiting"
     /\ m.connectionAttempt # m.retries[l].attempt
     /\ m.webSocket.identifier # m.retries[l].attempt

release(m) ==
  [m EXCEPT !.retries = [l \in LoopIds |->
      IF over(m, l)
      THEN IF m.cancelWebsocketRetry = l THEN DoneLoop ELSE FreeLoop
      ELSE m.retries[l]]]

\* ---------------------------------------------- the attempt promise
\* resolve / reject of the promise created by createWebSocketConnection for
\* attempt k; the retry loop awaiting it continues. Settling a promise that
\* is no longer pending changes nothing.
resolveAttempt(m, k) ==
  [m EXCEPT !.retries = [l \in LoopIds |->
      IF m.retries[l].st = "awaiting" /\ m.retries[l].attempt = k
      THEN [m.retries[l] EXCEPT !.st = "done"] ELSE m.retries[l]]]

\* A rejected attempt sends its retry loop to sleep for the calculated delay.
rejectAttempt(m, k) ==
  [m EXCEPT !.retries = [l \in LoopIds |->
      IF m.retries[l].st = "awaiting" /\ m.retries[l].attempt = k
      THEN [m.retries[l] EXCEPT !.st = "sleeping", !.attempt = 0]
      ELSE m.retries[l]]]

\* -------------------------------------------- HocuspocusProviderWebsocket
onOpen(m) ==
  [m EXCEPT !.status = Connected, !.cancelWebsocketRetry = 0,
            !.receivedOnOpenPayload = TRUE]

cleanupWebSocket(m) ==
  IF m.webSocket = Null THEN m ELSE [m EXCEPT !.webSocket = Null]

createWebSocketConnection(m, l) ==
  LET m1 == IF m.webSocket # Null
            THEN cleanupWebSocket([m EXCEPT !.messageQueue = <<>>])
            ELSE m
      id == m1.identifier + 1
  IN [m1 EXCEPT !.lastMessageReceived = 0,
                !.identifier = id,
                !.webSocket = [identifier |-> id, readyState |-> WsConnecting,
                               sent |-> <<>>],
                !.status = Connecting,
                !.connectionAttempt = id,
                !.retries[l] = [@ EXCEPT !.st = "awaiting", !.attempt = id]]

\* One attempt of the retry loop l: beforeAttempt aborts the loop, or the
\* attempt function is called.
makeAttempt(m, l) ==
  IF ~m.shouldConnect \/ m.retries[l].cancelAttempt
  THEN [m EXCEPT !.retries[l].st = "done"]
  ELSE createWebSocketConnection(m, l)

connect(m) ==
  IF m.status = Connected THEN m
  ELSE LET m1 == IF m.cancelWebsocketRetry # 0
                 THEN [m EXCEPT !.retries[m.cancelWebsocketRetry].cancelAttempt = TRUE,
                                !.cancelWebsocketRetry = 0]
                 ELSE m
           l == newLoop(m1)
           m2 == [m1 EXCEPT !.receivedOnOpenPayload = FALSE,
                            !.shouldConnect = TRUE,
                            !.retries[l] = [st |-> "starting", attempt |-> 0,
                                            cancelAttempt |-> FALSE]]
           m3 == makeAttempt(m2, l)
       IN [m3 EXCEPT !.cancelWebsocketRetry = l, !.latestRetry = l]

\* send with the queue filled from the front (unshift in place of push).
sendUnshift(m, message) ==
  IF m.webSocket # Null /\ m.webSocket.readyState = WsOpen
  THEN [m EXCEPT !.webSocket.sent = Append(@, message)]
  ELSE [m EXCEPT !.messageQueue =
          <<IF message.queuedAt = "" THEN [message EXCEPT !.queuedAt = m.status]
            ELSE message>> \o @]

send(m, message) ==
  IF m.webSocket # Null /\ m.webSocket.readyState = WsOpen
  THEN [m EXCEPT !.webSocket.sent = Append(@, message)]
  ELSE [m EXCEPT !.messageQueue =
          Append(@, IF message.queuedAt = "" THEN [message EXCEPT !.queuedAt = m.status]
                    ELSE message)]

RECURSIVE sendEach(_, _)
sendEach(m, queue) ==
  IF queue = <<>> THEN m ELSE sendEach(send(m, Head(queue)), Tail(queue))

resolveConnectionAttempt(m) ==
  IF m.connectionAttempt = 0 THEN m
  ELSE LET m1 == resolveAttempt(m, m.connectionAttempt)
           m2 == [m1 EXCEPT !.connectionAttempt = 0, !.status = Connected]
           m3 == sendEach(m2, m2.messageQueue)
       IN [m3 EXCEPT !.messageQueue = <<>>]

stopConnectionAttempt(m) == [m EXCEPT !.connectionAttempt = 0]

rejectConnectionAttempt(m) ==
  [rejectAttempt(m, m.connectionAttempt) EXCEPT !.connectionAttempt = 0]

\* onClose without the reconnect timer.
onCloseNoTimer(m, code) ==
  LET m1 == cleanupWebSocket([m EXCEPT !.closeTries = 0])
      m2 == IF m1.connectionAttempt # 0 THEN rejectConnectionAttempt(m1) ELSE m1
  IN [m2 EXCEPT !.status = Disconnected,
                !.disconnectCode = IF m2.callbacks THEN code ELSE @]

onClose(m, code) ==
  LET m1 == cleanupWebSocket([m EXCEPT !.closeTries = 0])
      m2 == IF m1.connectionAttempt # 0 THEN rejectConnectionAttempt(m1) ELSE m1
      m3 == [m2 EXCEPT !.status = Disconnected,
                       !.disconnectCode = IF m2.callbacks THEN code ELSE @]
  IN IF m3.cancelWebsocketRetry = 0 /\ m3.shouldConnect
     THEN [m3 EXCEPT !.reconnectTimers = @ + 1]
     ELSE m3

\* checkConnection forcing the close one evaluation early (closeTries > 1).
checkConnectionEarly(m) ==
  IF m.status # Connected THEN m
  ELSE IF m.lastMessageReceived = 0 THEN m
  ELSE IF messageReconnectTimeout >= m.now - m.lastMessageReceived THEN m
  ELSE LET m1 == [m EXCEPT !.closeTries = @ + 1]
       IN IF m1.closeTries > 1
          THEN [onClose(m1, ForcedCloseCode) EXCEPT !.closeTries = 0]
          ELSE [m1 EXCEPT !.webSocket = wsClose(@), !.messageQueue = <<>>]

checkConnection(m) ==
  IF m.status # Connected THEN m
  ELSE IF m.lastMessageReceived = 0 THEN m
  ELSE IF messageReconnectTimeout >= m.now - m.lastMessageReceived THEN m
  ELSE LET m1 == [m EXCEPT !.closeTries = @ + 1]
       IN IF m1.closeTries > 2
          THEN [onClose(m1, ForcedCloseCode) EXCEPT !.closeTries = 0]
          ELSE [m1 EXCEPT !.webSocket = wsClose(@), !.messageQueue = <<>>]

disconnect(m) ==
  LET m1 == [m EXCEPT !.shouldConnect = FALSE]
  IN IF m1.webSocket = Null THEN m1
     ELSE [m1 EXCEPT !.webSocket = wsClose(@), !.messageQueue = <<>>]

removeAllListeners(m) ==
  [m EXCEPT !.callbacks = FALSE, !.listening = <<>>]

destroy(m) ==
  LET m1 == [m EXCEPT !.connectionChecker = FALSE]
      m2 == stopConnectionAttempt(m1)
      m3 == disconnect(m2)
      m4 == removeAllListeners(m3)
  IN cleanupWebSocket(m4)

\* ----------------------------------------------------- HocuspocusProvider
setSynced(m, s, state) == [m EXCEPT !.isSynced[s] = state]

resetUnsyncedChanges(m, s) == [m EXCEPT !.unsyncedChanges[s] = 1]

incrementUnsyncedChanges(m, s) == [m EXCEPT !.unsyncedChanges[s] = @ + 1]

\* An acknowledgment that clears the counter.
clearUnsyncedChanges(m, s) ==
  setSynced([m EXCEPT !.unsyncedChanges[s] = 0], s, TRUE)

decrementUnsyncedChanges(m, s) ==
  LET m1 == IF m.unsyncedChanges[s] > 0
            THEN [m EXCEPT !.unsyncedChanges[s] = @ - 1] ELSE m
  IN IF m1.unsyncedChanges[s] = 0 THEN setSynced(m1, s, TRUE) ELSE m1

\* HocuspocusProvider.send with MessageSender.send: the frame of the given
\* type for the session's document name goes to the manager's send.
providerSend(m, s, type) ==
  IF ~m.isAttached[s] THEN m
  ELSE send([m EXCEPT !.sendCount = @ + 1],
            [doc |-> Name(s), type |-> type, n |-> m.sendCount + 1,
             queuedAt |-> "", reply |-> FALSE])

\* HocuspocusProvider.send of the receiver's reply encoder (OutgoingMessage):
\* the frame is what the encoder holds, the document name first.
sendReply(m, s) ==
  IF ~m.isAttached[s] THEN m
  ELSE send([m EXCEPT !.sendCount = @ + 1],
            [doc |-> m.encoder[1],
             type |-> IF m.encoder[2] = "Sync" /\ Len(m.encoder) > 2
                      THEN m.encoder[3] ELSE m.encoder[2],
             n |-> m.sendCount + 1, queuedAt |-> "", reply |-> TRUE])

forceSync(m, s) ==
  providerSend(resetUnsyncedChanges(m, s), s, "SyncStepOne")

documentUpdateHandler(m, s) ==
  providerSend(incrementUnsyncedChanges(m, s), s, "Update")

\* The local awareness state changes: every change is broadcast.
awarenessUpdateHandler(m, s) == providerSend(m, s, "Awareness")

\* Awareness.setLocalState for the session's own client id: state is FALSE for
\* null, TRUE for an object.
setLocalState(m, s, state) ==
  awarenessUpdateHandler([m EXCEPT !.localState[s] = state], s)

\* startSync broadcasting the awareness state before it asks for the document.
startSyncAwarenessFirst(m, s) ==
  LET m1 == resetUnsyncedChanges(m, s)
      m2 == IF m1.localState[s] THEN providerSend(m1, s, "Awareness") ELSE m1
  IN providerSend(m2, s, "SyncStepOne")

startSync(m, s) ==
  LET m1 == providerSend(resetUnsyncedChanges(m, s), s, "SyncStepOne")
  IN IF m1.localState[s] THEN providerSend(m1, s, "Awareness") ELSE m1

\* onOpen up to its await of getToken ...
providerOnOpen(m, s) ==
  [m EXCEPT !.isAuthenticated[s] = FALSE, !.opening = Append(@, s),
            !.events[s].getToken = @ + 1]

\* ... and after the token arrived.
providerOnOpenResume(m, s) == startSync(providerSend(m, s, "Auth"), s)

\* permissionDeniedHandler starting the synchronisation all the same.
permissionDeniedHandlerResync(m, s) ==
  startSync([m EXCEPT !.events[s].authenticationFailed = @ + 1,
                      !.isAuthenticated[s] = FALSE], s)

permissionDeniedHandler(m, s) ==
  [m EXCEPT !.events[s].authenticationFailed = @ + 1, !.isAuthenticated[s] = FALSE]

authenticatedHandler(m, s) == [m EXCEPT !.isAuthenticated[s] = TRUE]

providerOnClose(m, s) ==
  setSynced([m EXCEPT !.isAuthenticated[s] = FALSE], s, FALSE)

\* readSyncMessage answering a step 1 whose payload is missing, and letting
\* every other frame pass.
readSyncMessageUnchecked(m, type) ==
  IF type \in {"SyncStepOne", "SyncStepOneTruncated"}
  THEN [m EXCEPT !.encoder = @ \o <<"SyncStepTwo", "update">>]
  ELSE m

\* readSyncMessage: step 1 writes a step 2 with the missing updates to the
\* reply encoder; step 2 and an update are applied to the document with the
\* session as origin, which documentUpdateHandler ignores. An unknown step
\* throws, and so does readVarUint8Array on the missing payload of a step,
\* before anything is written or applied.
readSyncMessage(m, type) ==
  IF type = "SyncStepOne"
  THEN [m EXCEPT !.encoder = @ \o <<"SyncStepTwo", "update">>]
  ELSE IF type \in {"SyncUnknown"} \cup TruncatedSyncTypes
  THEN [m EXCEPT !.thrown = TRUE]
  ELSE m

\* applySyncMessage marking the session synced on every Sync frame.
applySyncMessageAnyStep(m, s, type) ==
  setSynced(readSyncMessage([m EXCEPT !.encoder = Append(@, "Sync")], type), s, TRUE)

applySyncMessage(m, s, type) ==
  LET m1 == readSyncMessage([m EXCEPT !.encoder = Append(@, "Sync")], type)
  IN IF ~m1.thrown /\ type = "SyncStepTwo" THEN setSynced(m1, s, TRUE) ELSE m1

applySyncStatusMessage(m, s, applied) ==
  IF applied THEN decrementUnsyncedChanges(m, s) ELSE m

\* applyAwarenessMessage: the update is applied to the session's store; when
\* it adds, updates or removes a client the store emits 'update', which
\* awarenessUpdateHandler answers whatever the origin.
applyAwarenessMessage(m, s, news) ==
  IF news THEN awarenessUpdateHandler(m, s) ELSE m

\* applyAuthMessage running onOpen again when the server denies.
applyAuthMessageRetrying(m, s, type) ==
  IF type = "Authenticated" THEN authenticatedHandler(m, s)
  ELSE providerOnOpen(permissionDeniedHandler(m, s), s)

\* readAuthMessage calls one of the two handlers of the session.
applyAuthMessage(m, s, type) ==
  IF type = "Authenticated" THEN authenticatedHandler(m, s)
  ELSE permissionDeniedHandler(m, s)

applyQueryAwarenessMessage(m, s) ==
  [m EXCEPT !.encoder = @ \o <<"Awareness", "states">>]

\* The reply test on any byte written after the document name.
hasReplyAnyByte(m, emptyMessageLength) == Len(m.encoder) > emptyMessageLength

\* message.length() > emptyMessageLength + 1
hasReply(m, emptyMessageLength) == Len(m.encoder) > emptyMessageLength + 1

\* MessageReceiver.apply: the frame is handled by its type, then the reply
\* encoder is sent if the handler wrote more than a type to it. A type that
\* is not known throws, and so do readVarUint8Array and readVarString on a
\* payload that is missing, before the handler of the frame is called;
\* readVarInt on the missing payload of a SyncStatus frame returns 0.
providerOnMessage(m, s, type) ==
  LET emptyMessageLength == Len(m.encoder)
      m1 == IF type \in SyncTypes \cup {"SyncUnknown"} \cup TruncatedSyncTypes
            THEN applySyncMessage(m, s, type)
            ELSE IF type \in {"Unknown", "AwarenessTruncated", "StatelessTruncated",
                              "CloseTruncated"}
                 THEN [m EXCEPT !.thrown = TRUE]
            ELSE IF type = "SyncStatusTruncated"
                 THEN applySyncStatusMessage(m, s, 0 = 1)
            ELSE IF type \in {"Awareness", "AwarenessKnown"}
                 THEN applyAwarenessMessage(m, s, type = "Awareness")
            ELSE IF type \in {"Authenticated", "PermissionDenied"}
                 THEN applyAuthMessage(m, s, type)
            ELSE IF type = "QueryAwareness" THEN applyQueryAwarenessMessage(m, s)
            ELSE IF type = "SyncStatus"
                 THEN applySyncStatusMessage([m EXCEPT !.acks[s] = @ + 1], s, TRUE)
            ELSE IF type = "Close" THEN providerOnClose(m, s)
            ELSE m   \* Stateless: handed to the application
  IN IF ~m1.thrown /\ hasReply(m1, emptyMessageLength) THEN sendReply(m1, s) ELSE m1

\* The bytes of a frame: the document name, then the type. A decoder reads
\* them from its position on.
createDecoder(data) == [arr |-> data, pos |-> 1]

readVarString(decoder) ==
  [value |-> decoder.arr[decoder.pos], decoder |-> [decoder EXCEPT !.pos = @ + 1]]

peekVarString(decoder) ==
  LET pos == decoder.pos
      r == readVarString(decoder)
  IN [value |-> r.value, decoder |-> [r.decoder EXCEPT !.pos = pos]]

\* HocuspocusProvider.onMessage: a decoder of its own over the event's data;
\* the document name is read and written to the reply encoder, then the
\* receiver reads the type.
receiveEvent(m, s, data) ==
  LET name == readVarString(createDecoder(data))
      type == readVarString(name.decoder)
  IN providerOnMessage([m EXCEPT !.encoder = <<name.value>>, !.thrown = FALSE],
                       s, type.value)

\* onMessage handing the event to every registered session.
onMessageBroadcast(m, doc, type) ==
  LET RECURSIVE each(_, _)
      each(mm, order) == IF order = <<>> THEN mm
                         ELSE each(receiveEvent(mm, Head(order), <<doc, type>>), Tail(order))
      m1 == resolveConnectionAttempt(m)
      m2 == [m1 EXCEPT !.lastMessageReceived = m1.now]
  IN each(m2, m2.listening)

onMessage(m, doc, type) ==
  LET data == <<doc, type>>
      m1 == resolveConnectionAttempt(m)
      m2 == [m1 EXCEPT !.lastMessageReceived = m1.now]
      documentName == peekVarString(createDecoder(data)).value
  IN IF documentName \in DOMAIN m2.providerMap /\ m2.providerMap[documentName] # NoProvider
     THEN receiveEvent(m2, m2.providerMap[documentName], data)
     ELSE m2

\* attach without the replay of the recorded open event.
attachNoReplay(m, s) ==
  LET m1 == [m EXCEPT !.providerMap[Name(s)] = s]
  IN IF m1.status = Disconnected /\ m1.shouldConnect THEN connect(m1) ELSE m1

attach(m, s) ==
  LET m1 == [m EXCEPT !.providerMap[Name(s)] = s]
      m2 == IF m1.status = Disconnected /\ m1.shouldConnect THEN connect(m1) ELSE m1
  IN IF m2.receivedOnOpenPayload /\ m2.status = Connected
     THEN providerOnOpen(m2, s)
     ELSE m2

detach(m, s) ==
  IF m.providerMap[Name(s)] # NoProvider
  THEN [providerSend(m, s, "Close") EXCEPT !.providerMap[Name(s)] = NoProvider]
  ELSE m

providerAttach(m, s) ==
  IF m.isAttached[s] THEN m
  ELSE LET m1 == attach([m EXCEPT !.listening = Append(@, s)], s)
       IN [m1 EXCEPT !.isAttached[s] = TRUE]

providerDetach(m, s) ==
  LET m1 == detach([m EXCEPT !.listening = SelectSeq(@, LAMBDA x : x # s)], s)
  IN [m1 EXCEPT !.isAttached[s] = FALSE]

\* ------------------------------------------------------- event dispatch
RECURSIVE emitToProviders(_, _, _)
\* The providers' listeners for an event of the manager, in the order of
\* their registration.
emitToProviders(m, order, event) ==
  IF order = <<>> THEN m
  ELSE LET s == Head(order)
           m1 == IF event = "open" THEN providerOnOpen(m, s)
                 ELSE providerOnClose(m, s)
       IN emitToProviders(m1, Tail(order), event)

\* emit("open"): the manager's own onOpen, then the attached providers'.
emitOpen(m) ==
  emitToProviders([(IF m.callbacks THEN onOpen(m) ELSE m)
                     EXCEPT !.acks = [s \in Sessions |-> 0]], m.listening, "open")

\* emit("close"): the manager's own onClose, then the attached providers'.
emitClose(m, code) ==
  emitToProviders(IF m.callbacks THEN onClose(m, code) ELSE m, m.listening, "close")

RECURSIVE runMicrotasks(_, _)
\* The onOpen calls suspended at "await this.getToken()" in this handler run:
\* a token that is already there resumes the call before any other event
\* (later[s] = FALSE), a token still being fetched leaves it pending.
runMicrotasks(m, later) ==
  IF m.opening = <<>> THEN m
  ELSE LET s == Head(m.opening)
           m1 == [m EXCEPT !.opening = Tail(@)]
       IN runMicrotasks(IF later[s]
                        THEN [m1 EXCEPT !.tokenPending[s] = @ + 1]
                        ELSE providerOnOpenResume(m1, s), later)

\* -------------------------------------------------------------- Awareness
outdatedTimeout == 30000

\* The client id of the document of the Awareness instance, and a peer's.
LocalClient == 1
RemoteClient == 2
Clients == {LocalClient, RemoteClient}

\* Awareness states as they travel, JSON-encoded; "null" marks a client as
\* offline and is stored as the absence of the client from the states map.
NullState == "null"
States == {"{}", "x"}

\* An entry of the meta map; known is FALSE for a client id without entry.
NoMeta == [known |-> FALSE, clock |-> 0, lastUpdated |-> 0]
MetaClientState(clock, lastUpdated) ==
  [known |-> TRUE, clock |-> clock, lastUpdated |-> lastUpdated]

getLocalState(aw) == aw.states[aw.clientID]

encodeAwarenessUpdate(aw, clients) ==
  [i \in 1..Len(clients) |->
     [clientID |-> clients[i], clock |-> aw.meta[clients[i]].clock,
      state |-> aw.states[clients[i]]]]

\* emit('update', ...): the provider's awarenessUpdateHandler encodes the
\* changed clients as they are in the store at that moment.
emitUpdate(r, added, updated, removed) ==
  [r EXCEPT !.updates = Append(@,
     [added |-> added, updated |-> updated, removed |-> removed,
      frame |-> encodeAwarenessUpdate(r.aw, added \o updated \o removed)])]

\* setLocalState storing the state under the clock it finds.
Awareness_setLocalStateSameClock(r, state, timestamp) ==
  LET clientID == r.aw.clientID
      r1 == [r EXCEPT !.aw.states[clientID] = state,
                      !.aw.meta[clientID] =
                        MetaClientState(r.aw.meta[clientID].clock, timestamp)]
  IN emitUpdate(r1, <<>>, <<clientID>>, <<>>)

\* setLocalState: the first call, of the constructor, stores clock 0, every
\* later one the clock above the stored one.
Awareness_setLocalState(r, state, timestamp) ==
  LET clientID == r.aw.clientID
      currLocalMeta == r.aw.meta[clientID]
      clock == IF ~currLocalMeta.known THEN 0 ELSE currLocalMeta.clock + 1
      prevState == r.aw.states[clientID]
      r1 == [r EXCEPT !.aw.states[clientID] = state,
                      !.aw.meta[clientID] = MetaClientState(clock, timestamp)]
  IN IF state = NullState THEN emitUpdate(r1, <<>>, <<>>, <<clientID>>)
     ELSE IF prevState = NullState THEN emitUpdate(r1, <<clientID>>, <<>>, <<>>)
     ELSE emitUpdate(r1, <<>>, <<clientID>>, <<>>)

RECURSIVE removeEach(_, _, _, _)
removeEach(r, clients, removed, timestamp) ==
  IF clients = <<>> THEN [r |-> r, removed |-> removed]
  ELSE LET clientID == Head(clients) IN
       IF r.aw.states[clientID] # NullState
       THEN LET r1 == [r EXCEPT !.aw.states[clientID] = NullState]
                r2 == IF clientID = r.aw.clientID
                      THEN [r1 EXCEPT !.aw.meta[clientID] =
                              MetaClientState(r.aw.meta[clientID].clock + 1, timestamp)]
                      ELSE r1
            IN removeEach(r2, Tail(clients), Append(removed, clientID), timestamp)
       ELSE removeEach(r, Tail(clients), removed, timestamp)

removeAwarenessStates(r, clients, timestamp) ==
  LET done == removeEach(r, clients, <<>>, timestamp)
  IN IF done.removed # <<>> THEN emitUpdate(done.r, <<>>, <<>>, done.removed)
     ELSE done.r

RECURSIVE applyEach(_, _, _, _)
\* The loop of applyAwarenessUpdate over the entries of the update; ch
\* collects the added, updated and removed client ids.
applyEach(r, update, ch, timestamp) ==
  IF update = <<>> THEN [r |-> r, ch |-> ch]
  ELSE
    LET clientID == Head(update).clientID
        state == Head(update).state
        clientMeta == r.aw.meta[clientID]
        currClock == IF ~clientMeta.known THEN 0 ELSE clientMeta.clock
        keep == /\ state = NullState
                /\ clientID = r.aw.clientID
                /\ getLocalState(r.aw) # NullState
        clock == IF keep THEN Head(update).clock + 1 ELSE Head(update).clock
        r1 == [r EXCEPT !.aw.states[clientID] = IF keep THEN @ ELSE state,
                        !.aw.meta[clientID] = MetaClientState(clock, timestamp)]
        ch1 == IF ~clientMeta.known /\ state # NullState
               THEN [ch EXCEPT !.added = Append(@, clientID)]
               ELSE IF clientMeta.known /\ state = NullState
               THEN [ch EXCEPT !.removed = Append(@, clientID)]
               ELSE IF state # NullState
               THEN [ch EXCEPT !.updated = Append(@, clientID)]
               ELSE ch
    IN IF \/ currClock < Head(update).clock
          \/ /\ currClock = Head(update).clock
             /\ state = NullState
             /\ r.aw.states[clientID] # NullState
       THEN applyEach(r1, Tail(update), ch1, timestamp)
       ELSE applyEach(r, Tail(update), ch, timestamp)

\* applyAwarenessUpdate accepting an entry whatever its clock.
applyAwarenessUpdateAnyClock(r, update, timestamp) ==
  LET e == Head(update)
      r1 == [r EXCEPT !.aw.states[e.clientID] = e.state,
                      !.aw.meta[e.clientID] = MetaClientState(e.clock, timestamp)]
  IN emitUpdate(r1, <<>>, <<e.clientID>>, <<>>)

applyAwarenessUpdate(r, update, timestamp) ==
  LET done == applyEach(r, update,
                        [added |-> <<>>, updated |-> <<>>, removed |-> <<>>], timestamp)
  IN IF done.ch.added # <<>> \/ done.ch.updated # <<>> \/ done.ch.removed # <<>>
     THEN emitUpdate(done.r, done.ch.added, done.ch.updated, done.ch.removed)
     ELSE done.r

\* The check interval sparing a peer that is exactly the timeout old.
checkIntervalLate(r, timestamp) ==
  LET local == r.aw.clientID
      r1 == IF /\ getLocalState(r.aw) # NullState
               /\ outdatedTimeout \div 2 <= timestamp - r.aw.meta[local].lastUpdated
            THEN Awareness_setLocalState(r, getLocalState(r.aw), timestamp)
            ELSE r
      remove == {c \in Clients : /\ r1.aw.meta[c].known
                                 /\ c # local
                                 /\ outdatedTimeout < timestamp - r1.aw.meta[c].lastUpdated
                                 /\ r1.aw.states[c] # NullState}
  IN IF remove # {}
     THEN removeAwarenessStates(r1, <<CHOOSE c \in remove : TRUE>>, timestamp)
     ELSE r1

\* The check interval of the Awareness instance: the local clock is renewed
\* when half the timeout has passed, the outdated peers (here at most one)
\* are removed.
checkInterval(r, timestamp) ==
  LET local == r.aw.clientID
      r1 == IF /\ getLocalState(r.aw) # NullState
               /\ outdatedTimeout \div 2 <= timestamp - r.aw.meta[local].lastUpdated
            THEN Awareness_setLocalState(r, getLocalState(r.aw), timestamp)
            ELSE r
      remove == {c \in Clients : /\ r1.aw.meta[c].known
                                 /\ c # local
                                 /\ outdatedTimeout <= timestamp - r1.aw.meta[c].lastUpdated
                                 /\ r1.aw.states[c] # NullState}
  IN IF remove # {}
     THEN removeAwarenessStates(r1, <<CHOOSE c \in remove : TRUE>>, timestamp)
     ELSE r1

\* The handlers work on the store with the list of the events they emit.
Aw == [aw |-> awareness, updates |-> <<>>]

\* new Awareness(doc): empty maps, then setLocalState({}).
NewAwareness ==
  Awareness_setLocalState(
    [aw |-> [clientID |-> LocalClient,
             states |-> [c \in Clients |-> NullState],
             meta |-> [c \in Clients |-> NoMeta]],
     updates |-> <<>>], "{}", 1).aw

\* The next store is r.aw, with clocks within the bound.
CommitAwareness(r) ==
  /\ \A c \in Clients : r.aw.meta[c].clock <= MaxClock
  /\ awareness' = r.aw
  /\ awarenessUpdates' = r.updates
  /\ UNCHANGED <<codec, backoff, gameVars>>

\* ------------------------------------------------------------ checkers
BOARD_SIZE == 8
Rows == 0..(BOARD_SIZE - 1)
Squares == Rows \X Rows
Player == {"player1", "player2"}
NoPlayer == "null"
Users == {"u1", "u2", "u3"}
NoUser == "undefined"
NoPlayers == [player1 |-> NoUser, player2 |-> NoUser]

\* board[row][col] = null
NoPiece == [id |-> <<>>, player |-> NoPlayer, type |-> "null", row |-> -1, col |-> -1]

initializeBoard(boardSize) ==
  LET placed(startRow, endRow, player, sq) ==
        /\ sq[1] >= startRow /\ sq[1] < endRow
        /\ (sq[1] + sq[2]) % 2 = 1
      piece(player, sq) == [id |-> <<player, sq[1], sq[2]>>, player |-> player,
                            type |-> "normal", row |-> sq[1], col |-> sq[2]]
  IN  [sq \in Squares |->
        IF placed(boardSize - 3, boardSize, "player2", sq) THEN piece("player2", sq)
        ELSE IF placed(0, 3, "player1", sq) THEN piece("player1", sq)
        ELSE NoPiece]

\* The directions a piece moves in: a king in all four, player1 down the
\* board and player2 up.
directions(piece) ==
  IF piece.type = "king" THEN << <<-1, -1>>, <<-1, 1>>, <<1, -1>>, <<1, 1>> >>
  ELSE IF piece.player = "player1" THEN << <<1, -1>>, <<1, 1>> >>
  ELSE << <<-1, -1>>, <<-1, 1>> >>

\* The moves of the piece in one direction: a step onto an empty square, or
\* a capture over a piece of the other player onto the empty square behind.
movesIn(piece, board, d) ==
  LET newRow == piece.row + d[1]
      newCol == piece.col + d[2]
      captureRow == newRow + d[1]
      captureCol == newCol + d[2]
  IN  IF newRow < 0 \/ newRow >= BOARD_SIZE \/ newCol < 0 \/ newCol >= BOARD_SIZE
      THEN <<>>
      ELSE IF board[<<newRow, newCol>>] = NoPiece
      THEN <<[row |-> newRow, col |-> newCol, isCapture |-> FALSE,
              capturedPiece |-> NoPiece]>>
      ELSE IF /\ board[<<newRow, newCol>>].player # piece.player
              /\ captureRow >= 0 /\ captureRow < BOARD_SIZE
              /\ captureCol >= 0 /\ captureCol < BOARD_SIZE
              /\ board[<<captureRow, captureCol>>] = NoPiece
      THEN <<[row |-> captureRow, col |-> captureCol, isCapture |-> TRUE,
              capturedPiece |-> board[<<newRow, newCol>>]]>>
      ELSE <<>>

getValidMoves(piece, board) ==
  LET dirs == directions(piece)
      moves[i \in 0..Len(dirs)] ==
        IF i = 0 THEN <<>> ELSE moves[i - 1] \o movesIn(piece, board, dirs[i])
  IN  moves[Len(dirs)]

shouldBecomeKing(piece, boardSize) ==
  \/ piece.player = "player1" /\ piece.row = boardSize - 1
  \/ piece.player = "player2" /\ piece.row = 0

\* checkWinner that looks at the pieces left only.
checkWinnerPiecesOnly(board, currentPlayer) ==
  LET pieces(player) == {sq \in Squares : board[sq].player = player}
  IN  IF pieces("player1") = {} THEN "player2"
      ELSE IF pieces("player2") = {} THEN "player1"
      ELSE NoPlayer

checkWinner(board, currentPlayer) ==
  LET pieces(player) == {sq \in Squares : board[sq].player = player}
      hasValidMoves == \E sq \in pieces(currentPlayer) :
                          Len(getValidMoves(board[sq], board)) > 0
  IN  IF pieces("player1") = {} THEN "player2"
      ELSE IF pieces("player2") = {} THEN "player1"
      ELSE IF hasValidMoves THEN NoPlayer
      ELSE IF currentPlayer = "player1" THEN "player2" ELSE "player1"

\* The parts of the description of a move: who moved which type of piece
\* from which square to which, and whether it captured.
createMoveDescription(piece, targetRow, targetCol, isCapture) ==
  [player |-> piece.player, type |-> piece.type,
   fromSquare |-> <<piece.col, piece.row + 1>>,
   toSquare |-> <<targetCol, targetRow + 1>>, isCapture |-> isCapture]

executeMove(gs, piece, targetRow, targetCol, validMove) ==
  LET cleared == [gs.board EXCEPT ![<<piece.row, piece.col>>] = NoPiece]
      captured == IF validMove.isCapture /\ validMove.capturedPiece # NoPiece
                  THEN [cleared EXCEPT ![<<validMove.capturedPiece.row,
                                           validMove.capturedPiece.col>>] = NoPiece]
                  ELSE cleared
      movedPiece == [piece EXCEPT !.row = targetRow, !.col = targetCol,
                       !.type = IF shouldBecomeKing(piece, BOARD_SIZE)
                                THEN "king" ELSE piece.type]
      newBoard == [captured EXCEPT ![<<targetRow, targetCol>>] = movedPiece]
      nextPlayer == IF gs.currentPlayer = "player1" THEN "player2" ELSE "player1"
  IN  [board |-> newBoard,
       currentPlayer |-> nextPlayer,
       selectedPiece |-> NoPiece,
       validMoves |-> <<>>,
       capturedPieces |-> IF validMove.isCapture /\ validMove.capturedPiece # NoPiece
                          THEN Append(gs.capturedPieces, validMove.capturedPiece)
                          ELSE gs.capturedPieces,
       winner |-> checkWinner(newBoard, nextPlayer),
       moveHistory |-> Append(gs.moveHistory,
                         createMoveDescription(piece, targetRow, targetCol,
                                               validMove.isCapture))]

\* The snapshot of the block that a user's handlers work on.
Block == [gameState |-> gameState, players |-> players, spectators |-> spectators,
          localSelectedPiece |-> localSelectedPiece,
          localValidMoves |-> localValidMoves, lastWriter |-> lastWriter]

\* The seat of a user: player1, player2 or none.
localPlayer(b, userId) ==
  IF b.players.player1 = userId THEN "player1"
  ELSE IF b.players.player2 = userId THEN "player2"
  ELSE NoPlayer

isSpectator(b, userId) == localPlayer(b, userId) = NoPlayer

updateGameState(b, userId, newGameState) ==
  [b EXCEPT !.gameState = newGameState, !.lastWriter = userId]

select(b, userId, piece) ==
  [b EXCEPT !.localSelectedPiece[userId] = piece,
            !.localValidMoves[userId] =
               IF piece = NoPiece THEN <<>> ELSE getValidMoves(piece, b.gameState.board)]

\* handleSquareClick that lets any user move when a piece is selected.
handleSquareClickAnyTurn(b, userId, row, col) ==
  LET gs == b.gameState
      clickedPiece == gs.board[<<row, col>>]
      found == SelectSeq(b.localValidMoves[userId],
                         LAMBDA move : move.row = row /\ move.col = col)
  IN  IF gs.winner # NoPlayer THEN b
      ELSE IF b.localSelectedPiece[userId] # NoPiece
      THEN IF found # <<>>
           THEN updateGameState(select(b, userId, NoPiece), userId,
                  executeMove(gs, b.localSelectedPiece[userId], row, col, found[1]))
           ELSE IF clickedPiece.player = gs.currentPlayer
           THEN select(b, userId, clickedPiece)
           ELSE select(b, userId, NoPiece)
      ELSE IF clickedPiece.player = gs.currentPlayer
      THEN select(b, userId, clickedPiece)
      ELSE b

handleSquareClick(b, userId, row, col) ==
  LET gs == b.gameState
      clickedPiece == gs.board[<<row, col>>]
      found == SelectSeq(b.localValidMoves[userId],
                         LAMBDA move : move.row = row /\ move.col = col)
  IN  IF gs.winner # NoPlayer THEN b
      ELSE IF gs.currentPlayer # localPlayer(b, userId) \/ isSpectator(b, userId) THEN b
      ELSE IF b.localSelectedPiece[userId] # NoPiece
      THEN IF found # <<>>
           THEN updateGameState(select(b, userId, NoPiece), userId,
                  executeMove(gs, b.localSelectedPiece[userId], row, col, found[1]))
           ELSE IF clickedPiece.player = gs.currentPlayer
           THEN select(b, userId, clickedPiece)
           ELSE select(b, userId, NoPiece)
      ELSE IF clickedPiece.player = gs.currentPlayer
      THEN select(b, userId, clickedPiece)
      ELSE b

initialGameState ==
  [board |-> initializeBoard(BOARD_SIZE), currentPlayer |-> "player1",
   selectedPiece |-> NoPiece, validMoves |-> <<>>, capturedPieces |-> <<>>,
   winner |-> NoPlayer, moveHistory |-> <<>>]

resetGame(b, userId) ==
  updateGameState(select(b, userId, NoPiece), userId, initialGameState)

\* The player assignment effect of a user's component.
assignPlayer(b, userId) ==
  IF b.players.player1 = NoUser
  THEN [b EXCEPT !.players.player1 = userId]
  ELSE IF b.players.player2 = NoUser /\ b.players.player1 # userId
  THEN [b EXCEPT !.players.player2 = userId]
  ELSE IF /\ b.players.player1 # userId
          /\ b.players.player2 # userId
          /\ \A i \in 1..Len(b.spectators) : b.spectators[i] # userId
  THEN [b EXCEPT !.spectators = Append(@, userId)]
  ELSE b

\* The block as the components mount on it: the initial shared state and
\* no selection.
initialMultiplayerState ==
  [gameState |-> initialGameState, players |-> NoPlayers, spectators |-> <<>>,
   localSelectedPiece |-> [u \in Users |-> NoPiece],
   localValidMoves |-> [u \in Users |-> <<>>], lastWriter |-> NoUser]

\* The block once the assignment effects of the three users have run.
seated ==
  assignPlayer(assignPlayer(assignPlayer(initialMultiplayerState, "u1"), "u2"), "u3")

NewBlock(b) ==
  /\ gameState = b.gameState
  /\ players = b.players
  /\ spectators = b.spectators
  /\ localSelectedPiece = b.localSelectedPiece
  /\ localValidMoves = b.localValidMoves
  /\ lastWriter = b.lastWriter

\* The next block is b, with at most n moves applied to the game.
CommitWithin(b, n) ==
  /\ Len(b.gameState.moveHistory) <= n
  /\ gameState' = b.gameState
  /\ players' = b.players
  /\ spectators' = b.spectators
  /\ localSelectedPiece' = b.localSelectedPiece
  /\ localValidMoves' = b.localValidMoves
  /\ lastWriter' = b.lastWriter
  /\ UNCHANGED syncVars

CommitBlock(b) == CommitWithin(b, MaxMoves)

\* The squares the pieces stand on and move over.
Dark == {sq \in Squares : (sq[1] + sq[2]) % 2 = 1}

\* The boards late in a game: each player has one man left, both in the last
\* three rows and columns. (No move of executeMove makes a king.)
EndGames ==
  LET Corner == {sq \in Dark : sq[1] >= BOARD_SIZE - 3 /\ sq[2] >= BOARD_SIZE - 3}
      man(player, sq) == [id |-> <<player, IF player = "player1" THEN 0 ELSE BOARD_SIZE - 1,
                                   IF player = "player1" THEN 1 ELSE 0>>,
                          player |-> player, type |-> "normal",
                          row |-> sq[1], col |-> sq[2]]
  IN  {[sq \in Squares |-> IF sq = q[1] THEN man("player1", q[1])
                           ELSE IF sq = q[2] THEN man("player2", q[2])
                           ELSE NoPiece] :
         q \in {q \in Corner \X Corner : q[1] # q[2]}}

\* ------------------------------------------------------------ retry options
\* The retry options of the manager's default configuration.
DefaultOptions == [delay |-> 1000, factor |-> 2, minDelay |-> 1000,
                   maxDelay |-> 30000, jitter |-> TRUE]

\* The retry options a configuration can carry: a delay between attempts, a
\* growth factor (0: no growth), a lower bound and an upper bound (0: none).
Options == [delay : 1..MaxOption, factor : 0..MaxOption, minDelay : 0..MaxOption,
            maxDelay : 0..MaxOption, jitter : BOOLEAN]

\* A retry loop that made no attempt yet.
newRetry(options) == [options |-> options, attemptNum |-> 0, waits |-> <<>>]

RECURSIVE Pow(_, _)
Pow(b, e) == IF e = 0 THEN 1 ELSE b * Pow(b, e - 1)

Least(a, b) == IF a <= b THEN a ELSE b

\* The waits the loop can choose after the attempt context.attemptNum failed:
\* the delay, grown by the factor with each attempt and capped by maxDelay
\* when a factor is given; with jitter, a random integer between minDelay and
\* that delay. minDelay has no effect without jitter.
calculateDelay(context, options) ==
  LET grown == IF options.factor # 0
               THEN options.delay * Pow(options.factor, context.attemptNum - 1)
               ELSE options.delay
      delay == IF options.factor # 0 /\ options.maxDelay # 0
               THEN Least(grown, options.maxDelay)
               ELSE grown
  IN  IF options.jitter
      THEN Least(options.minDelay, delay) .. (options.minDelay + delay - Least(options.minDelay, delay))
      ELSE {delay}

\* ------------------------------------------------- variable-length integers
\* A JavaScript number holding a non-negative integer, in two limbs of 28
\* bits: hi * Limb + lo. The integers up to 2^53 and the powers of 128 that
\* readVarUint multiplies by are exact in a JavaScript number, and so are the
\* operations below on them.
Limb == 2^28
Num(hi, lo) == [hi |-> hi, lo |-> lo]
MAX_SAFE_INTEGER == Num(2^25 - 1, Limb - 1)
BIT8 == 128
BITS7 == 127

\* num > other
Greater(num, other) ==
  num.hi > other.hi \/ (num.hi = other.hi /\ num.lo > other.lo)

\* BITS7 & num: the bitwise operators work on the low 32 bits of the number.
LowBits(num) == num.lo % (BITS7 + 1)

\* floor(num / 128)
Shift7(num) ==
  Num(num.hi \div 128, (num.hi % 128) * (Limb \div 128) + num.lo \div 128)

\* num * 128
Times128(num) ==
  Num(num.hi * 128 + num.lo \div (Limb \div 128), (num.lo % (Limb \div 128)) * 128)

\* num + digit * mult, for a mult that is a power of 128
PlusDigit(num, digit, mult) ==
  LET lo == num.lo + digit * mult.lo
  IN Num(num.hi + digit * mult.hi + lo \div Limb, lo % Limb)

RECURSIVE writeVarUint(_, _)
\* The bytes of the encoder after writeVarUint(encoder, num).
writeVarUint(bytes, num) ==
  IF Greater(num, Num(0, BITS7))
  THEN writeVarUint(Append(bytes, BIT8 + LowBits(num)), Shift7(num))
  ELSE Append(bytes, LowBits(num))

RECURSIVE readVarUintFrom(_, _, _, _)
\* The loop of readVarUint: the value returned with the position after it,
\* or the error thrown.
readVarUintFrom(arr, pos, num, mult) ==
  IF pos > Len(arr) THEN [kind |-> "Unexpected end of array", num |-> Num(0, 0), pos |-> pos]
  ELSE LET r == arr[pos]
           num1 == PlusDigit(num, r % (BITS7 + 1), mult)
       IN IF r < BIT8 THEN [kind |-> "value", num |-> num1, pos |-> pos + 1]
          ELSE IF Greater(num1, MAX_SAFE_INTEGER)
          THEN [kind |-> "Integer out of Range", num |-> Num(0, 0), pos |-> pos + 1]
          ELSE readVarUintFrom(arr, pos + 1, num1, Times128(mult))

readVarUint(decoder) == readVarUintFrom(decoder.arr, decoder.pos, Num(0, 0), Num(0, 1))

\* The numbers tried: around the byte boundaries of the encoding, up to 2^53.
LimbSamples == {0, 1, 127, 128, 16383, 16384, 2^21 - 1, 2^21}
Numbers ==
  {Num(hi, lo) : hi \in LimbSamples \cup {2^25 - 1}, lo \in LimbSamples \cup {Limb - 1}}
    \cup {Num(2^25, 0)}

NotRead == [kind |-> "none", num |-> Num(0, 0), pos |-> 1]

BIT7 == 64
BITS6 == 63

RECURSIVE readVarIntFrom(_, _, _, _, _)
\* The loop of readVarInt after the first byte.
readVarIntFrom(arr, pos, num, mult, sign) ==
  IF pos > Len(arr)
  THEN [kind |-> "Unexpected end of array", num |-> Num(0, 0), pos |-> pos, sign |-> 1]
  ELSE LET r == arr[pos]
           num1 == PlusDigit(num, r % (BITS7 + 1), mult)
       IN IF r < BIT8 THEN [kind |-> "value", num |-> num1, pos |-> pos + 1, sign |-> sign]
          ELSE IF Greater(num1, MAX_SAFE_INTEGER)
          THEN [kind |-> "Integer out of Range", num |-> Num(0, 0), pos |-> pos + 1,
                sign |-> 1]
          ELSE readVarIntFrom(arr, pos + 1, num1, Times128(mult), sign)

\* readVarInt: the first byte is read whatever the position; past the end of
\* the array it is undefined, whose bits are all 0, and 0 is returned.
readVarInt(decoder) ==
  IF decoder.pos > Len(decoder.arr)
  THEN [kind |-> "value", num |-> Num(0, 0), pos |-> decoder.pos + 1, sign |-> 1]
  ELSE LET r == decoder.arr[decoder.pos]
           num == Num(0, r % (BITS6 + 1))
           sign == IF (r \div BIT7) % 2 = 1 THEN -1 ELSE 1
       IN IF r < BIT8
          THEN [kind |-> "value", num |-> num, pos |-> decoder.pos + 1, sign |-> sign]
          ELSE readVarIntFrom(decoder.arr, decoder.pos + 1, num, Num(0, BIT7), sign)

\* readUint8Array on a decoder over a whole buffer: the view of len bytes
\* from the position on is created, or the Uint8Array constructor throws.
readUint8Array(decoder, len) ==
  IF len.hi > 0 \/ decoder.pos - 1 + len.lo > Len(decoder.arr)
  THEN [kind |-> "RangeError", num |-> Num(0, 0), pos |-> decoder.pos]
  ELSE [kind |-> "value", num |-> len, pos |-> decoder.pos + len.lo]

readVarUint8Array(decoder) ==
  LET len == readVarUint(decoder)
  IN IF len.kind # "value" THEN len
     ELSE readUint8Array([decoder EXCEPT !.pos = len.pos], len.num)

\* readVarString with the native TextDecoder, which is fatal: it throws on
\* bytes that are not UTF-8. Of the bytes tried none leads a multi-byte
\* sequence, so the view decodes when it is ASCII.
readVarStringNative(decoder) ==
  LET view == readVarUint8Array(decoder)
  IN IF view.kind = "value"
        /\ \E i \in (view.pos - view.num.lo)..(view.pos - 1) : decoder.arr[i] >= BIT8
     THEN [view EXCEPT !.kind = "TypeError"]
     ELSE view

peekVarStringNative(decoder) ==
  LET pos == decoder.pos
      r == readVarStringNative(decoder)
  IN [r EXCEPT !.pos = pos]

\* The buffers tried: the bytes around the sign, continuation and length bits.
ByteSamples == {0, 1, 2, 63, 64, 127, 128, 129, 255}
Buffers == UNION {[1..n -> ByteSamples] : n \in 0..MaxBytes}

\* ---------------------------------------------------------------- commit
\* The next state is the snapshot r, within the bounds of the model.
Commit(r) ==
  /\ r.identifier <= MaxSockets
  /\ r.sendCount <= MaxSends
  /\ r.reconnectTimers <= MaxTimers
  /\ Cardinality({l \in LoopIds : r.retries[l].st = "sleeping"}) <= MaxTimers
  /\ \A s \in Sessions : r.tokenPending[s] <= MaxPending
  /\ \A s \in Sessions : r.unsyncedChanges[s] <= MaxUnsynced
  /\ \A s \in Sessions : r.acks[s] <= MaxUnsynced
  /\ status' = r.status
  /\ shouldConnect' = r.shouldConnect
  /\ webSocket' = r.webSocket
  /\ messageQueue' = r.messageQueue
  /\ connectionAttempt' = r.connectionAttempt
  /\ cancelWebsocketRetry' = r.cancelWebsocketRetry
  /\ receivedOnOpenPayload' = r.receivedOnOpenPayload
  /\ lastMessageReceived' = r.lastMessageReceived
  /\ identifier' = r.identifier
  /\ closeTries' = r.closeTries
  /\ callbacks' = r.callbacks
  /\ connectionChecker' = r.connectionChecker
  /\ providerMap' = r.providerMap
  /\ retries' = release(r).retries
  /\ reconnectTimers' = r.reconnectTimers
  /\ now' = r.now
  /\ isAttached' = r.isAttached
  /\ listening' = r.listening
  /\ isAuthenticated' = r.isAuthenticated
  /\ isSynced' = r.isSynced
  /\ unsyncedChanges' = r.unsyncedChanges
  /\ localState' = r.localState
  /\ tokenPending' = r.tokenPending
  /\ sendCount' = r.sendCount
  /\ disconnectCode' = r.disconnectCode
  /\ destroyed' = r.destroyed
  /\ latestRetry' = r.latestRetry
  /\ closedWhileConnected' =
       (status = Connected /\ r.status = Disconnected /\ shouldConnect)
  /\ staleChecks' = r.staleChecks
  /\ replayed' = r.replayed
  /\ acks' = r.acks
  /\ thrown' = r.thrown
  /\ events' = IF events = NotRecorded THEN NotRecorded ELSE r.events
  /\ names' = names
  /\ UNCHANGED <<awareness, awarenessUpdates, codec, backoff, gameVars>>

\* ------------------------------------------------------------------ Init
\* The state after "new HocuspocusProviderWebsocket(configuration)": with
\* autoConnect (the default) the constructor has already called connect().
Constructed ==
  LET m0 == [status |-> Disconnected, shouldConnect |-> TRUE,
             webSocket |-> Null, messageQueue |-> <<>>,
             connectionAttempt |-> 0, cancelWebsocketRetry |-> 0,
             receivedOnOpenPayload |-> FALSE, lastMessageReceived |-> 0,
             identifier |-> 0, closeTries |-> 0, callbacks |-> TRUE,
             connectionChecker |-> TRUE,
             providerMap |-> [d \in DocNames |-> NoProvider],
             retries |-> [l \in LoopIds |-> FreeLoop], reconnectTimers |-> 0, now |-> 1,
             isAttached |-> [s \in Sessions |-> FALSE],
             listening |-> <<>>,
             isAuthenticated |-> [s \in Sessions |-> FALSE],
             isSynced |-> [s \in Sessions |-> FALSE],
             unsyncedChanges |-> [s \in Sessions |-> 0],
             localState |-> [s \in Sessions |-> TRUE],
             tokenPending |-> [s \in Sessions |-> 0],
             sendCount |-> 0, disconnectCode |-> 0, destroyed |-> FALSE,
             latestRetry |-> 0,
             closedWhileConnected |-> FALSE, staleChecks |-> 0,
             replayed |-> FALSE, acks |-> [s \in Sessions |-> 0],
             opening |-> <<>>, encoder |-> <<>>, thrown |-> FALSE,
             events |-> NoEvents]
  IN IF m0.shouldConnect THEN connect(m0) ELSE m0

InitFields ==
    LET r == Constructed IN
    /\ status = r.status
    /\ shouldConnect = r.shouldConnect
    /\ webSocket = r.webSocket
    /\ messageQueue = r.messageQueue
    /\ connectionAttempt = r.connectionAttempt
    /\ cancelWebsocketRetry = r.cancelWebsocketRetry
    /\ receivedOnOpenPayload = r.receivedOnOpenPayload
    /\ lastMessageReceived = r.lastMessageReceived
    /\ identifier = r.identifier
    /\ closeTries = r.closeTries
    /\ callbacks = r.callbacks
    /\ connectionChecker = r.connectionChecker
    /\ providerMap = r.providerMap
    /\ retries = r.retries
    /\ reconnectTimers = r.reconnectTimers
    /\ now = r.now
    /\ isAttached = r.isAttached
    /\ listening = r.listening
    /\ isAuthenticated = r.isAuthenticated
    /\ isSynced = r.isSynced
    /\ unsyncedChanges = r.unsyncedChanges
    /\ localState = r.localState
    /\ tokenPending = r.tokenPending
    /\ sendCount = r.sendCount
    /\ disconnectCode = r.disconnectCode
    /\ destroyed = r.destroyed
    /\ latestRetry = r.latestRetry
    /\ closedWhileConnected = r.closedWhileConnected
    /\ staleChecks = r.staleChecks
    /\ replayed = r.replayed
    /\ acks = r.acks
    /\ thrown = r.thrown
    /\ awareness = NewAwareness
    /\ awarenessUpdates = <<>>

\* The program after construction; the calls and events of the sessions are
\* not counted.
InitProgram ==
    /\ names = OwnNames
    /\ InitFields
    /\ events = NotRecorded

\* No number is being encoded.
NoCodec == [num |-> Num(0, 0), bytes |-> <<>>, out |-> NotRead]

Init ==
    /\ InitProgram
    /\ codec = NoCodec
    /\ backoff = newRetry(DefaultOptions)
    /\ NewBlock(initialMultiplayerState)

\* The program after construction, the calls and events of the sessions
\* counted step by step.
InitRecorded ==
    /\ names = OwnNames
    /\ InitFields
    /\ events = Constructed.events
    /\ codec = NoCodec
    /\ backoff = newRetry(DefaultOptions)
    /\ NewBlock(initialMultiplayerState)

\* The program after construction when the two sessions are configured with
\* one document name.
InitShared ==
    /\ names = SharedNames
    /\ InitFields
    /\ events = NotRecorded
    /\ codec = NoCodec
    /\ backoff = newRetry(DefaultOptions)
    /\ NewBlock(initialMultiplayerState)

\* A number to encode is chosen.
InitVarUint ==
    /\ InitProgram
    /\ \E num \in Numbers : codec = [num |-> num, bytes |-> <<>>, out |-> NotRead]
    /\ backoff = newRetry(DefaultOptions)
    /\ NewBlock(initialMultiplayerState)

\* A buffer arrives and a decoder is created over it.
InitDecode ==
    /\ InitProgram
    /\ \E arr \in Buffers : codec = [num |-> Num(0, 0), bytes |-> arr, out |-> NotRead]
    /\ backoff = newRetry(DefaultOptions)
    /\ NewBlock(initialMultiplayerState)

\* The retry options of the manager's configuration are chosen.
InitBackoff ==
    /\ InitProgram
    /\ codec = NoCodec
    /\ \E options \in Options : backoff = newRetry(options)
    /\ NewBlock(initialMultiplayerState)

\* A game late in play: one man is left to each player, the two seats are
\* taken and the third user watches.
InitGame ==
    /\ InitProgram
    /\ codec = NoCodec
    /\ backoff = newRetry(DefaultOptions)
    /\ \E board \in EndGames, currentPlayer \in Player :
         NewBlock([seated EXCEPT !.gameState.board = board,
                                 !.gameState.currentPlayer = currentPlayer])

\* A game about to start: the full board, the two seats taken and the third
\* user watching.
InitPlay ==
    /\ InitProgram
    /\ codec = NoCodec
    /\ backoff = newRetry(DefaultOptions)
    /\ NewBlock(seated)

\* --------------------------------------------------------------- actions
\* The application calls connect() on the manager.
Connect ==
  /\ ~destroyed
  /\ Commit(connect(St))

\* The application calls disconnect() on the manager.
Disconnect ==
  /\ ~destroyed
  /\ Commit(disconnect(St))

\* The application calls destroy() on the manager.
Destroy ==
  /\ ~destroyed
  /\ Commit([destroy(St) EXCEPT !.destroyed = TRUE])

\* The application attaches session s; later[s] tells whether its token is
\* still being fetched when the replayed onOpen awaits it.
Attach(s) ==
  /\ ~destroyed
  /\ \E later \in [Sessions -> BOOLEAN] :
       /\ \A x \in Sessions \ {s} : ~later[x]
       /\ LET a == providerAttach(St, s)
              r == runMicrotasks(a, later)
          IN Commit([r EXCEPT !.replayed = (a.opening # <<>>)])

\* The application detaches session s.
Detach(s) ==
  /\ s \in Sessions
  /\ Commit(providerDetach(St, s))

\* A local edit of the document of session s.
DocumentUpdate(s) ==
  /\ s \in Sessions
  /\ Commit(documentUpdateHandler(St, s))

\* The application sets or clears the local awareness state of session s.
SetLocalState(s, state) ==
  /\ s \in Sessions
  /\ Commit(setLocalState(St, s, state))

\* The forceSync interval of session s fires.
ForceSync(s) ==
  /\ s \in Sessions
  /\ Commit(forceSync(St, s))

\* The channel reports that it is open; later[x] tells whether the token of
\* attached session x is still being fetched when its onOpen awaits it.
ChannelOpen ==
  /\ webSocket # Null
  /\ webSocket.readyState = WsConnecting
  /\ \E later \in [Sessions -> BOOLEAN] :
       /\ \A x \in Sessions : later[x] => isAttached[x]
       /\ Commit(runMicrotasks(emitOpen([St EXCEPT !.webSocket.readyState = WsOpen]), later))

\* The channel delivers a frame for document name doc.
ChannelMessage(doc, type) ==
  /\ webSocket # Null
  /\ webSocket.readyState = WsOpen
  /\ callbacks
  /\ Commit(onMessage(St, doc, type))

\* The channel reports that it is closed.
ChannelClose ==
  /\ webSocket # Null
  /\ webSocket.readyState # WsClosed
  /\ Commit(emitClose([St EXCEPT !.webSocket.readyState = WsClosed,
                                 !.staleChecks = IF callbacks THEN 0 ELSE @],
                      NormalCloseCode))

\* The channel reports an error; the error event is followed by the close
\* event before any timer can run.
ChannelError ==
  /\ webSocket # Null
  /\ webSocket.readyState \in {WsConnecting, WsOpen}
  /\ Commit(emitClose(rejectAttempt([St EXCEPT !.webSocket.readyState = WsClosed,
                                               !.staleChecks = IF callbacks THEN 0 ELSE @],
                                    webSocket.identifier), NormalCloseCode))

\* The connectionChecker interval fires.
\* The watchdog finds the link silent: Connected, a frame was received once,
\* and none within messageReconnectTimeout.
Stale ==
  /\ status = Connected
  /\ lastMessageReceived # 0
  /\ now - lastMessageReceived > messageReconnectTimeout

CheckConnection ==
  /\ connectionChecker
  /\ Commit([checkConnection(St) EXCEPT !.staleChecks =
               IF Stale THEN (IF @ = 2 THEN 0 ELSE @ + 1) ELSE @])

\* Time passes: more than messageReconnectTimeout. The clock is read by
\* onMessage and compared by checkConnection only; time is let pass where
\* that comparison can tell the difference, after a frame was received and
\* while the link is not yet silent.
Tick ==
  /\ now + messageReconnectTimeout + 1 <= MaxTime * (messageReconnectTimeout + 1)
  /\ lastMessageReceived # 0
  /\ now - lastMessageReceived <= messageReconnectTimeout
  /\ Commit([St EXCEPT !.now = @ + messageReconnectTimeout + 1])

\* A reconnect timer set by onClose fires.
ReconnectTimer ==
  /\ reconnectTimers > 0
  /\ Commit(connect([St EXCEPT !.reconnectTimers = @ - 1]))

\* The delay of retry loop l is over.
RetryWake(l) ==
  /\ retries[l].st = "sleeping"
  /\ Commit(makeAttempt(St, l))

\* The token of a waiting onOpen call arrives.
TokenResolve(s) ==
  /\ tokenPending[s] > 0
  /\ Commit(providerOnOpenResume([St EXCEPT !.tokenPending[s] = @ - 1], s))

\* The token of a waiting onOpen call cannot be obtained.
TokenFail(s) ==
  /\ tokenPending[s] > 0
  /\ Commit(permissionDeniedHandler([St EXCEPT !.tokenPending[s] = @ - 1], s))

\* An Awareness frame with one entry arrives and is applied to the store.
AwarenessMessage(clientID, clock, state) ==
  /\ clientID \in Clients
  /\ CommitAwareness(applyAwarenessUpdate(Aw,
        <<[clientID |-> clientID, clock |-> clock, state |-> state]>>, now))
  /\ UNCHANGED sessionVars

\* The application sets the local awareness state.
LocalState(state) ==
  /\ state \in States \cup {NullState}
  /\ CommitAwareness(Awareness_setLocalState(Aw, state, now))
  /\ UNCHANGED sessionVars

\* The check interval of the Awareness instance fires.
CheckInterval ==
  /\ CommitAwareness(checkInterval(Aw, now))
  /\ UNCHANGED sessionVars

\* The states of the given clients are removed from the store: the peers'
\* when the connection closes, the local one when the page is hidden or the
\* provider destroyed.
RemoveStates(clients) ==
  /\ clients \in {<<LocalClient>>, <<RemoteClient>>}
  /\ CommitAwareness(removeAwarenessStates(Aw, clients, now))
  /\ UNCHANGED sessionVars

\* Half the outdated timeout passes.
Elapse ==
  /\ now + outdatedTimeout \div 2 <= MaxTime * (messageReconnectTimeout + 1)
  /\ Commit([St EXCEPT !.now = @ + outdatedTimeout \div 2])

\* The number is written to an empty encoder.
WriteVarUint ==
  /\ codec.bytes = <<>>
  /\ codec' = [codec EXCEPT !.bytes = writeVarUint(<<>>, codec.num)]
  /\ UNCHANGED <<sessionVars, awareness, awarenessUpdates, backoff, gameVars>>

\* A decoder over the written bytes reads a number.
ReadVarUint ==
  /\ codec.bytes # <<>>
  /\ codec.out = NotRead
  /\ codec' = [codec EXCEPT !.out = readVarUint(createDecoder(codec.bytes))]
  /\ UNCHANGED <<sessionVars, awareness, awarenessUpdates, backoff, gameVars>>

\* The decoder over the buffer, at the position the last read left it: the
\* reading goes on while no read has failed and the position is in the buffer
\* or at its end.
Decoder == [arr |-> codec.bytes, pos |-> codec.out.pos]
Decoding ==
  /\ codec.out.kind \in {"none", "value"}
  /\ codec.out.pos <= Len(codec.bytes) + 1

DecodeVarUint ==
  /\ Decoding
  /\ codec' = [codec EXCEPT !.out = readVarUint(Decoder)]
  /\ UNCHANGED <<sessionVars, awareness, awarenessUpdates, backoff, gameVars>>

DecodeVarInt ==
  /\ Decoding
  /\ codec' = [codec EXCEPT !.out = readVarInt(Decoder)]
  /\ UNCHANGED <<sessionVars, awareness, awarenessUpdates, backoff, gameVars>>

DecodeVarUint8Array ==
  /\ Decoding
  /\ codec' = [codec EXCEPT !.out = readVarUint8Array(Decoder)]
  /\ UNCHANGED <<sessionVars, awareness, awarenessUpdates, backoff, gameVars>>

DecodeVarString ==
  /\ Decoding
  /\ codec' = [codec EXCEPT !.out = readVarStringNative(Decoder)]
  /\ UNCHANGED <<sessionVars, awareness, awarenessUpdates, backoff, gameVars>>

PeekVarString ==
  /\ Decoding
  /\ codec' = [codec EXCEPT !.out = peekVarStringNative(Decoder)]
  /\ UNCHANGED <<sessionVars, awareness, awarenessUpdates, backoff, gameVars>>

\* A user clicks a square of the board (the pieces stand on the dark squares
\* and move over them; a light square is an empty square no move ends on).
SquareClick(u, row, col) ==
  /\ u \in Users
  /\ CommitBlock(handleSquareClick(Block, u, row, col))

\* A seated user presses New Game (the button is disabled for the others).
ResetGame(u) ==
  /\ localPlayer(Block, u) # NoPlayer
  /\ CommitBlock(resetGame(Block, u))

\* A user clicks a square in a game that started on the full board.
Play(u, row, col) ==
  /\ u \in Users
  /\ CommitWithin(handleSquareClick(Block, u, row, col), MaxPlay)

\* An attempt of the retry loop fails and the loop waits before the next one.
AttemptFails ==
  /\ backoff.attemptNum < MaxFailures
  /\ \E wait \in calculateDelay([attemptNum |-> backoff.attemptNum + 1], backoff.options) :
       backoff' = [backoff EXCEPT !.attemptNum = @ + 1, !.waits = Append(@, wait)]
  /\ UNCHANGED <<sessionVars, awareness, awarenessUpdates, codec, gameVars>>

\* The connection manager on its own: the application's calls, the channel's
\* events, the watchdog and the timers. No session is attached.
Next ==
  \/ Connect
  \/ Disconnect
  \/ Destroy
  \/ ChannelOpen
  \/ \E doc \in {"unknown"} : ChannelMessage(doc, "Stateless")
  \/ ChannelClose
  \/ ChannelError
  \/ CheckConnection
  \/ Tick
  \/ ReconnectTimer
  \/ \E l \in LoopIds : RetryWake(l)

Spec == Init /\ [][Next]_vars

\* The manager with the sessions attached to it and the frames they send.
NextSession ==
  \/ Disconnect
  \/ \E s \in FirstSession : Attach(s)
  \/ \E s \in FirstSession : DocumentUpdate(s)
  \/ ChannelOpen
  \/ \E doc \in DocNames : ChannelMessage(doc, "Stateless")
  \/ ChannelClose
  \/ ReconnectTimer
  \/ \E l \in LoopIds : RetryWake(l)
  \/ \E s \in FirstSession : TokenResolve(s)
  \/ \E s \in FirstSession : TokenFail(s)

SpecSession == Init /\ [][NextSession]_vars

\* The manager with a session that attaches and detaches.
NextDetach ==
  \/ Disconnect
  \/ \E s \in FirstSession : Attach(s)
  \/ \E s \in FirstSession : Detach(s)
  \/ ChannelOpen
  \/ \E doc \in DocNames : ChannelMessage(doc, "Stateless")
  \/ ChannelClose
  \/ ReconnectTimer
  \/ \E s \in FirstSession : TokenResolve(s)

SpecDetach == Init /\ [][NextDetach]_vars

\* Two sessions on one manager and the frames the server sends to them; the
\* document of the second session is edited locally.
NextRoute ==
  \/ \E s \in Sessions : Attach(s)
  \/ \E s \in Sessions \ FirstSession : DocumentUpdate(s)
  \/ ChannelOpen
  \/ \E doc \in DocNames \cup {"unknown"}, type \in IncomingTypes : ChannelMessage(doc, type)
  \/ \E s \in Sessions : TokenResolve(s)
  \/ Tick

SpecRoute == Init /\ [][NextRoute]_vars

\* Two sessions on one manager, attached and detached in any order, and the
\* frames the server sends under the names of the two documents; the sessions
\* have one document name or one each.
NextShared ==
  \/ \E s \in Sessions : Attach(s)
  \/ \E s \in Sessions : Detach(s)
  \/ ChannelOpen
  \/ \E doc \in DocNames : ChannelMessage(doc, "SyncStepTwo")

\* The sessions are configured with one document name or with one each.
InitNames == InitShared \/ Init

SpecShared == InitNames /\ [][NextShared]_vars

\* A session whose local awareness state comes and goes, over a channel that
\* opens, closes and is reopened by the reconnect timer.
NextHandshake ==
  \/ \E s \in FirstSession : Attach(s)
  \/ \E s \in FirstSession, state \in BOOLEAN : SetLocalState(s, state)
  \/ ChannelOpen
  \/ ChannelClose
  \/ ReconnectTimer
  \/ \E s \in FirstSession : TokenResolve(s)

SpecHandshake == Init /\ [][NextHandshake]_vars

\* A session that edits its document and resynchronises, and the server's
\* StateSnapshotReply and SyncStatus frames for it.
NextSync ==
  \/ \E s \in FirstSession : Attach(s)
  \/ \E s \in FirstSession : DocumentUpdate(s)
  \/ \E s \in FirstSession : ForceSync(s)
  \/ ChannelOpen
  \/ \E s \in FirstSession, type \in {"SyncStepTwo", "SyncStatus"} :
       ChannelMessage(Name(s), type)
  \/ ChannelClose
  \/ ReconnectTimer
  \/ \E s \in FirstSession : TokenResolve(s)

SpecSync == Init /\ [][NextSync]_vars

\* A session that edits its document on one channel, and the server's
\* acknowledgments.
NextEdit ==
  \/ \E s \in FirstSession : Attach(s)
  \/ \E s \in FirstSession : DocumentUpdate(s)
  \/ ChannelOpen
  \/ \E s \in FirstSession : ChannelMessage(Name(s), "SyncStatus")
  \/ \E s \in FirstSession : TokenResolve(s)

SpecEdit == Init /\ [][NextEdit]_vars

\* A session that authenticates on a channel that opens, closes and is
\* reopened: its token arrives or fails, the server accepts or denies.
NextAuth ==
  \/ \E s \in FirstSession : Attach(s)
  \/ \E s \in FirstSession : DocumentUpdate(s)
  \/ ChannelOpen
  \/ \E s \in FirstSession, type \in {"Authenticated", "PermissionDenied", "SyncStepTwo"} :
       ChannelMessage(Name(s), type)
  \/ ChannelClose
  \/ ReconnectTimer
  \/ \E s \in FirstSession : TokenResolve(s)
  \/ \E s \in FirstSession : TokenFail(s)

SpecAuth == InitRecorded /\ [][NextAuth]_vars

\* A session that edits its document while the application connects and
\* disconnects, the channel comes and goes and the watchdog runs.
NextQueue ==
  \/ Connect
  \/ Disconnect
  \/ \E s \in FirstSession : Attach(s)
  \/ \E s \in FirstSession : DocumentUpdate(s)
  \/ ChannelOpen
  \/ \E s \in FirstSession : ChannelMessage(Name(s), "Stateless")
  \/ ChannelClose
  \/ CheckConnection
  \/ Tick
  \/ ReconnectTimer
  \/ \E l \in LoopIds : RetryWake(l)
  \/ \E s \in FirstSession : TokenResolve(s)

SpecQueue == Init /\ [][NextQueue]_vars

\* A session that is authenticated and synced on a channel that falls
\* silent, is closed by the server or by the watchdog, and is reopened.
NextWatchdog ==
  \/ \E s \in FirstSession : Attach(s)
  \/ ChannelOpen
  \/ \E s \in FirstSession, type \in {"Authenticated", "SyncStepTwo"} :
       ChannelMessage(Name(s), type)
  \/ ChannelClose
  \/ CheckConnection
  \/ Tick
  \/ ReconnectTimer
  \/ \E s \in FirstSession : TokenResolve(s)

SpecWatchdog == Init /\ [][NextWatchdog]_vars

\* A session on an open channel and every frame the server can send to it,
\* well formed or not.
NextReceive ==
  \/ \E s \in FirstSession : Attach(s)
  \/ ChannelOpen
  \/ \E s \in FirstSession, type \in FrameTypes : ChannelMessage(Name(s), type)
  \/ \E s \in FirstSession : TokenResolve(s)

SpecReceive == Init /\ [][NextReceive]_vars

\* An Awareness instance, the frames applied to it and the local state set
\* by the application.
NextAwareness ==
  \/ \E clientID \in Clients, clock \in 0..MaxClock, state \in States \cup {NullState} :
       AwarenessMessage(clientID, clock, state)
  \/ \E state \in States \cup {NullState} : LocalState(state)

SpecAwareness == Init /\ [][NextAwareness]_vars

\* An Awareness instance over time: frames are applied, time passes and the
\* check interval sweeps the store.
NextSweep ==
  \/ \E clientID \in Clients, clock \in 0..MaxClock, state \in States \cup {NullState} :
       AwarenessMessage(clientID, clock, state)
  \/ CheckInterval
  \/ Elapse

SpecSweep == Init /\ [][NextSweep]_vars

\* The clocks of an Awareness instance under everything that writes them:
\* frames applied, local states set, states removed, time and the sweep.
NextClock ==
  \/ \E clientID \in Clients, clock \in 0..MaxClock, state \in States \cup {NullState} :
       AwarenessMessage(clientID, clock, state)
  \/ \E state \in States \cup {NullState} : LocalState(state)
  \/ \E clients \in {<<LocalClient>>, <<RemoteClient>>} : RemoveStates(clients)
  \/ CheckInterval
  \/ Elapse

SpecClock == Init /\ [][NextClock]_vars

\* A number is written by writeVarUint and read back by readVarUint.
NextVarUint ==
  \/ WriteVarUint
  \/ ReadVarUint

SpecVarUint == InitVarUint /\ [][NextVarUint]_vars

\* The reads of the protocol on a decoder over an arbitrary buffer.
NextDecode ==
  \/ DecodeVarUint
  \/ DecodeVarInt
  \/ DecodeVarUint8Array
  \/ DecodeVarString
  \/ PeekVarString

SpecDecode == InitDecode /\ [][NextDecode]_vars

\* The checkers block: users click squares and the players start a new game.
NextGame ==
  \/ \E u \in Users, sq \in Dark : SquareClick(u, sq[1], sq[2])
  \/ \E u \in Users : ResetGame(u)

SpecGame == InitGame /\ [][NextGame]_vars

\* The checkers block from the start of a game: the two players click squares
\* and either of them starts a new game at any moment.
NextPlay ==
  \/ \E u \in Users \ {"u3"}, sq \in Dark : Play(u, sq[1], sq[2])
  \/ \E u \in Users \ {"u3"} : ResetGame(u)

SpecPlay == InitPlay /\ [][NextPlay]_vars

\* The attempts of one retry loop fail one after the other.
NextBackoff ==
  \/ AttemptFails

SpecBackoff == InitBackoff /\ [][NextBackoff]_vars

\* The manager with the reconnect timer eventually firing.
SpecLive == Init /\ [][Next]_vars /\ WF_vars(ReconnectTimer)

TypeOK ==
  /\ status \in WebSocketStatus
  /\ shouldConnect \in BOOLEAN
  /\ identifier \in 0..MaxSockets
  /\ closeTries \in 0..2
  /\ Len(messageQueue) <= MaxSends

\* ---------------------------------------------------------------- claims
Sent == webSocket.sent

\* C1: frames that send() queued while the channel was not open reach the
\* channel in the order in which they were enqueued.
C1_QueuedFramesKeepOrder ==
  \A i, j \in 1..Len(Sent) :
    (i < j /\ Sent[i].queuedAt # "" /\ Sent[j].queuedAt # "") => Sent[i].n < Sent[j].n

\* Three frames enqueued while Disconnected have been written to the channel.
C1_Witness ==
  Len(SelectSeq(Sent, LAMBDA f : f.queuedAt = Disconnected)) >= 3

\* C2: the frames of one session reach a channel in the order in which the
\* session handed them to send().
C2_SessionFramesKeepOrder ==
  \A i, j \in 1..Len(Sent) :
    (i < j /\ Sent[i].doc = Sent[j].doc) => Sent[i].n < Sent[j].n

\* C3: the status never goes from Connected directly to Connecting and never
\* from Disconnected directly to Connected.
C3_StatusEdges ==
  [][/\ (status = Connected => status' # Connecting)
     /\ (status = Disconnected => status' # Connected)]_vars

\* C4: every new channel is opened by an attempt of the retry loop that the
\* most recent connect() started.
C4_OnlyLatestRetryOpens ==
  [][identifier' # identifier => retries'[latestRetry'].attempt = identifier']_vars

\* C5: after the channel closed while the manager was Connected and no
\* disconnect() was in effect (shouldConnect), the manager eventually is
\* Connecting again.
C5_ReconnectsAfterClose ==
  (closedWhileConnected /\ identifier < MaxSockets) ~> (status = Connecting)

\* The channel closed while Connected and the reconnect timer is pending.
C5_Witness ==
  closedWhileConnected /\ status = Disconnected /\ reconnectTimers > 0

\* C6: after disconnect() (shouldConnect is FALSE) and unless the application
\* calls connect(), no channel is opened and the status does not become
\* Connecting.
C6_NoReconnectAfterDisconnect ==
  [][(~shouldConnect /\ ~Connect) =>
       /\ identifier' = identifier
       /\ (status' = Connecting => status = Connecting)]_vars

\* C7: the outbound queue is empty immediately after disconnect().
C7_DisconnectDropsQueue ==
  [][Disconnect => messageQueue' = <<>>]_vars

\* C8: after destroy() the manager has no watchdog, no listeners and no channel.
C8_DestroyedStaysDown ==
  destroyed => (~connectionChecker /\ ~callbacks /\ webSocket = Null)

\* C9: on a silent link the first and the second watchdog evaluation since the
\* last close event close the channel in the ordinary way, the third forces
\* the close with code 4408 and leaves the close-tries counter at 0.
C9_WatchdogEscalation ==
  [][(CheckConnection /\ Stale) =>
       /\ staleChecks < 2 =>
            /\ webSocket'.readyState = WsClosing
            /\ webSocket'.identifier = webSocket.identifier
            /\ status' = Connected
            /\ disconnectCode' = disconnectCode
       /\ staleChecks = 2 =>
            /\ status' = Disconnected
            /\ disconnectCode' = ForcedCloseCode
            /\ webSocket' = Null
            /\ closeTries' = 0]_vars

\* The third evaluation has forced the close.
C9_Witness ==
  disconnectCode = ForcedCloseCode /\ status = Disconnected /\ closeTries = 0

\* The handshake of session s is appended to the channel: Auth, then the
\* StateVectorRequest, then at most the Awareness frame.
HandshakeWritten(s) ==
  LET k == Len(Sent) IN
  /\ webSocket'.identifier = webSocket.identifier
  /\ Len(webSocket'.sent) \in {k + 2, k + 3}
  /\ SubSeq(webSocket'.sent, 1, k) = Sent
  /\ \A i \in (k + 1)..Len(webSocket'.sent) :
       webSocket'.sent[i].doc = Name(s) /\ webSocket'.sent[i].queuedAt = ""
  /\ webSocket'.sent[k + 1].type = "Auth"
  /\ webSocket'.sent[k + 2].type = "SyncStepOne"
  /\ Len(webSocket'.sent) = k + 3 => webSocket'.sent[k + 3].type = "Awareness"

\* C10, as claimed: a session attaching to a Connected manager with a recorded
\* open event has its open handler run at once, without a new channel, and
\* its Auth frame and StateVectorRequest are written to the channel (at once,
\* or the handler is waiting for its token).
C10_AttachWritesHandshake ==
  [][\A s \in Sessions :
       (/\ Attach(s)
        /\ ~isAttached[s]
        /\ status = Connected /\ receivedOnOpenPayload)
       => /\ identifier' = identifier
          /\ isAttached'[s]
          /\ \/ HandshakeWritten(s)
             \/ tokenPending'[s] = tokenPending[s] + 1 /\ webSocket' = webSocket]_vars

\* C10, amended: a session attaching to a Connected manager with a recorded
\* open event and a channel that is open (not closing) has its open handler
\* run at once, without a new channel, and its Auth frame and
\* StateVectorRequest are written to that channel as soon as its token is
\* there and the channel is still open.
C10_AttachReplaysOpen ==
  [][\A s \in Sessions :
       /\ (/\ ~isAttached[s]
           /\ status = Connected /\ receivedOnOpenPayload
           /\ webSocket.readyState = WsOpen
           /\ Attach(s))
          => /\ identifier' = identifier
             /\ isAttached'[s]
             /\ \/ HandshakeWritten(s)
                \/ tokenPending'[s] = tokenPending[s] + 1 /\ webSocket' = webSocket
       /\ (/\ isAttached[s]
           /\ webSocket.readyState = WsOpen
           /\ TokenResolve(s))
          => HandshakeWritten(s)]_vars

\* A replayed open event has put the handshake on the open channel.
C10_Witness ==
  /\ replayed
  /\ Len(Sent) >= 2
  /\ Sent[1].type = "Auth" /\ Sent[1].queuedAt = ""
  /\ Sent[2].type = "SyncStepOne"
  /\ identifier = 1

\* The Close frame of session s.
IsClose(f, s) == f.type = "Close" /\ f.doc = Name(s)

\* C11: detaching an attached session removes its routing entry and writes one
\* Close frame for its document name exactly when the channel is open; when
\* the channel is not open no Close frame is written and none is queued.
C11_DetachClosesOnOpenChannelOnly ==
  [][\A s \in Sessions :
       (Detach(s) /\ isAttached[s]) =>
         /\ providerMap'[Name(s)] = NoProvider
         /\ IF webSocket.readyState = WsOpen
            THEN /\ Len(webSocket'.sent) = Len(Sent) + 1
                 /\ SubSeq(webSocket'.sent, 1, Len(Sent)) = Sent
                 /\ IsClose(webSocket'.sent[Len(Sent) + 1], s)
            ELSE /\ webSocket' = webSocket
                 /\ \A i \in 1..Len(messageQueue') : ~IsClose(messageQueue'[i], s)]_vars

\* C12: an inbound frame sets lastMessageReceived to the present time and
\* acts, according to its type, on exactly the attached session whose document
\* name is the frame's: SyncStepTwo sets its synced flag, SyncStatus takes one
\* from its counter (synced at zero), Stateless changes nothing. Every other
\* session keeps its synced flag, counter, authentication and awareness state,
\* and a frame naming no attached session changes no session.
C12_FrameRoutedToNamedSession ==
  [][\A doc \in DocNames \cup {"unknown"}, type \in IncomingTypes :
       ChannelMessage(doc, type) =>
         /\ lastMessageReceived' = now
         /\ isAuthenticated' = isAuthenticated
         /\ localState' = localState
         /\ \A s \in Sessions :
              IF isAttached[s] /\ Name(s) = doc /\ type = "SyncStepTwo"
              THEN isSynced'[s] /\ unsyncedChanges'[s] = unsyncedChanges[s]
              ELSE IF isAttached[s] /\ Name(s) = doc /\ type = "SyncStatus"
              THEN /\ unsyncedChanges'[s] =
                        IF unsyncedChanges[s] > 0 THEN unsyncedChanges[s] - 1 ELSE 0
                   /\ isSynced'[s] = (isSynced[s] \/ unsyncedChanges'[s] = 0)
              ELSE isSynced'[s] = isSynced[s] /\ unsyncedChanges'[s] = unsyncedChanges[s]]_vars

\* Both sessions attached, a frame just received, and the two sessions in
\* different sync states.
C12_Witness ==
  /\ \A s \in Sessions : isAttached[s]
  /\ lastMessageReceived = now
  /\ now > 1
  /\ isSynced["p1"] /\ ~isSynced["p2"]
  /\ unsyncedChanges["p1"] = 0 /\ unsyncedChanges["p2"] = 2

\* The types of the frames that session s handed to send in this step, in
\* the order of the calls; a frame is in the channel or in the queue.
RECURSIVE TypesFrom(_, _, _)
TypesFrom(frames, s, n) ==
  IF \A i \in 1..Len(frames) : frames[i].n # n THEN <<>>
  ELSE LET f == frames[CHOOSE i \in 1..Len(frames) : frames[i].n = n]
       IN (IF f.doc = Name(s) THEN <<f.type>> ELSE <<>>) \o TypesFrom(frames, s, n + 1)

\* C13: when the onOpen call of an attached session gets its token (at once
\* in the step of the open event, or later), the session's counter becomes 1
\* and the session hands to send exactly an Auth frame, a SyncStepOne frame
\* and, if and only if its local awareness state is not null, an Awareness
\* frame, in this order.
C13_OpenHandshake ==
  [][\A s \in Sessions :
       (/\ isAttached[s]
        /\ \/ TokenResolve(s)
           \/ ChannelOpen /\ tokenPending'[s] = tokenPending[s]) =>
         /\ unsyncedChanges'[s] = 1
         /\ TypesFrom(webSocket'.sent \o messageQueue', s, sendCount + 1) =
              <<"Auth", "SyncStepOne">> \o
                (IF localState[s] THEN <<"Awareness">> ELSE <<>>)]_vars

\* A handshake without an Awareness frame has been written: the session's
\* local awareness state was null when the token arrived.
C13_Witness ==
  /\ ~localState["p1"]
  /\ Len(Sent) >= 2
  /\ Sent[Len(Sent) - 1].type = "Auth"
  /\ Sent[Len(Sent)].type = "SyncStepOne"
  /\ unsyncedChanges["p1"] = 1

\* The types of the frames written to the channel.
SentTypes == [i \in 1..Len(Sent) |-> Sent[i].type]

\* The handshake of an open event.
Handshake(s) ==
  <<"Auth", "SyncStepOne">> \o (IF localState[s] THEN <<"Awareness">> ELSE <<>>)

\* Session s has written its handshake to the open channel, nothing else,
\* and has received no acknowledgment.
FreshHandshake(s) ==
  /\ isAttached[s]
  /\ webSocket.readyState = WsOpen
  /\ SentTypes = Handshake(s)
  /\ \A i \in 1..Len(Sent) : Sent[i].doc = Name(s)
  /\ acks[s] = 0
  /\ tokenPending[s] = 0

\* C14: when the StateSnapshotReply arrives right after the handshake (no
\* local edit, no other frame in between), the session is synced and its
\* counter of unsynced changes is 0.
C14_SyncedAndCleanAfterReply ==
  [][\A s \in Sessions :
       (ChannelMessage(Name(s), "SyncStepTwo") /\ FreshHandshake(s)) =>
         (isSynced'[s] /\ unsyncedChanges'[s] = 0)]_vars

\* Session s has written its handshake and then one IncrementalUpdate to the
\* open channel, and has received no acknowledgment.
EditedBeforeAck(s) ==
  /\ isAttached[s]
  /\ webSocket.readyState = WsOpen
  /\ SentTypes = Handshake(s) \o <<"Update">>
  /\ \A i \in 1..Len(Sent) : Sent[i].doc = Name(s) /\ Sent[i].queuedAt = ""
  /\ tokenPending[s] = 0

\* C15: a local edit right after the handshake, before any acknowledgment,
\* makes the counter read 2; the first positive SyncStatus after that edit
\* makes it read 1.
C15_EditBeforeAck ==
  [][\A s \in Sessions :
       /\ (DocumentUpdate(s) /\ FreshHandshake(s)) => unsyncedChanges'[s] = 2
       /\ (/\ ChannelMessage(Name(s), "SyncStatus")
           /\ EditedBeforeAck(s) /\ acks[s] = 0) => unsyncedChanges'[s] = 1]_vars

\* The edit made before any acknowledgment has been acknowledged once.
C15_Witness ==
  /\ EditedBeforeAck("p1")
  /\ acks["p1"] = 1
  /\ unsyncedChanges["p1"] = 1

\* The IncrementalUpdates that session s wrote to the channel since it
\* opened.
UpdatesEmitted(s) ==
  Cardinality({i \in 1..Len(Sent) :
     Sent[i].type = "Update" /\ Sent[i].doc = Name(s) /\ Sent[i].queuedAt = ""})

\* C16: the counter of unsynced changes is 0 only if every IncrementalUpdate
\* the session emitted since the last open of the channel has been
\* acknowledged: at least as many positive SyncStatus frames arrived since.
C16_ZeroOnlyIfAllAcknowledged ==
  \A s \in Sessions :
    (isAttached[s] /\ webSocket.readyState = WsOpen /\ unsyncedChanges[s] = 0)
      => UpdatesEmitted(s) <= acks[s]

\* The state the store holds for the client of two one-entry updates after
\* they were applied to the present store, first then second.
AfterBoth(first, second) ==
  applyAwarenessUpdate(applyAwarenessUpdate(Aw, <<first>>, now),
                       <<second>>, now).aw.states[second.clientID]

Entry(clientID, clock, state) ==
  [clientID |-> clientID, clock |-> clock, state |-> state]

\* C17, as claimed: for every client id and two updates for it with clocks
\* c1 < c2, applying them to the store in either order leaves the store with
\* the state of the c2 update for that id.
C17_LastClockWins ==
  \A c \in Clients, c1, c2 \in 0..MaxClock, s1, s2 \in States \cup {NullState} :
    c1 < c2 =>
      /\ AfterBoth(Entry(c, c1, s1), Entry(c, c2, s2)) = s2
      /\ AfterBoth(Entry(c, c2, s2), Entry(c, c1, s1)) = s2

\* C17, amended: for every client id other than the store's own and two
\* updates for it with clocks c1 < c2, where c2 is above the clock the store
\* holds for that id, applying them in either order leaves the store with the
\* state of the c2 update for that id.
C17_LastClockWinsForNewerRemote ==
  \A c \in Clients \ {awareness.clientID}, c1, c2 \in 0..MaxClock,
     s1, s2 \in States \cup {NullState} :
    (c1 < c2 /\ awareness.meta[c].clock < c2) =>
      /\ AfterBoth(Entry(c, c1, s1), Entry(c, c2, s2)) = s2
      /\ AfterBoth(Entry(c, c2, s2), Entry(c, c1, s1)) = s2

\* An update has put a state of the peer into the store with a clock that
\* a later clock can follow.
C17_Witness ==
  /\ awareness.meta[RemoteClient].known
  /\ awareness.meta[RemoteClient].clock + 1 <= MaxClock
  /\ awareness.states[RemoteClient] = "x"
  /\ awarenessUpdates # <<>>

\* C18: when the local state is not null and an update carries the null state
\* for the local client id with the clock the store holds for it, the local
\* state stays as it is, the local clock grows, and the update event makes
\* the provider encode an Awareness frame for the local id with the greater
\* clock and the kept state.
C18_LocalStateSurvivesRemoval ==
  [][(/\ getLocalState(awareness) # NullState
      /\ AwarenessMessage(LocalClient, awareness.meta[LocalClient].clock, NullState)) =>
       /\ getLocalState(awareness') = getLocalState(awareness)
       /\ awareness'.meta[LocalClient].clock > awareness.meta[LocalClient].clock
       /\ Len(awarenessUpdates') = 1
       /\ awarenessUpdates'[1].frame =
            <<Entry(LocalClient, awareness'.meta[LocalClient].clock,
                    getLocalState(awareness))>>]_vars

\* A removal of the local state at the local clock has been answered: the
\* event names the local client as removed while its state is still there.
C18_Witness ==
  /\ getLocalState(awareness) # NullState
  /\ Len(awarenessUpdates) = 1
  /\ awarenessUpdates[1].removed = <<LocalClient>>

\* The update events of the last step that name client c as removed.
RemovedEvents(updates, c) ==
  {i \in 1..Len(updates) :
     \E j \in 1..Len(updates[i].removed) : updates[i].removed[j] = c}

\* C19: a sweep removes every peer entry that was last updated at least the
\* outdated timeout ago and names it in exactly one removed notification;
\* a peer that is not in the store, or not outdated, is not named: a removed
\* peer is not reported again unless an update has put it back.
C19_SweepEvictsOnce ==
  [][CheckInterval =>
       \A c \in Clients \ {awareness.clientID} :
         IF /\ awareness.states[c] # NullState
            /\ outdatedTimeout <= now - awareness.meta[c].lastUpdated
         THEN /\ awareness'.states[c] = NullState
              /\ Cardinality(RemovedEvents(awarenessUpdates', c)) = 1
         ELSE /\ awareness'.states[c] = awareness.states[c]
              /\ RemovedEvents(awarenessUpdates', c) = {}]_vars

\* A sweep has removed the peer exactly the outdated timeout after its last
\* update.
C19_Witness ==
  /\ awareness.states[RemoteClient] = NullState
  /\ awareness.meta[RemoteClient].known
  /\ now - awareness.meta[RemoteClient].lastUpdated = outdatedTimeout
  /\ RemovedEvents(awarenessUpdates, RemoteClient) # {}

\* C20: reading the bytes written for a number up to 2^53 - 1 returns the
\* number and consumes exactly these bytes; reading the bytes written for
\* 2^53 throws 'Integer out of Range'.
C20_VarUintRoundTrip ==
  codec.out # NotRead =>
    IF Greater(codec.num, MAX_SAFE_INTEGER)
    THEN codec.out.kind = "Integer out of Range"
    ELSE /\ codec.out.kind = "value"
         /\ codec.out.num = codec.num
         /\ codec.out.pos = Len(codec.bytes) + 1
\* C21: the waits of one retry loop all lie in [minDelay, maxDelay], and
\* without jitter they never decrease from one failed attempt to the next,
\* whatever the delay, factor, minDelay and maxDelay of the configuration.
C21_BackoffWithinBounds ==
  /\ \A i \in 1..Len(backoff.waits) :
       /\ backoff.options.minDelay <= backoff.waits[i]
       /\ backoff.waits[i] <= backoff.options.maxDelay
  /\ ~backoff.options.jitter =>
       \A i \in 1..(Len(backoff.waits) - 1) : backoff.waits[i] <= backoff.waits[i + 1]

\* The last move applied to the game, the square it ended on and the piece
\* the board holds there.
LastMove == gameState.moveHistory[Len(gameState.moveHistory)]
LastTarget == <<LastMove.toSquare[2] - 1, LastMove.toSquare[1]>>
Other(player) == IF player = "player1" THEN "player2" ELSE "player1"

\* C22: after a move that placed a normal piece on the opposite end row
\* (player1 on the last row, player2 on row 0), the piece stored on that
\* square of the board is a king.
C22_KingPromotion ==
  (/\ gameState.moveHistory # <<>>
   /\ LastMove.type = "normal"
   /\ LastTarget[1] = (IF LastMove.player = "player1" THEN BOARD_SIZE - 1 ELSE 0))
  => gameState.board[LastTarget].type = "king"

\* C23: a step that applies a move to the shared game state is made by the
\* user seated as currentPlayer, moves a piece of that player and hands the
\* turn to the other player; and the board changes only by the hand of a
\* seated user, never a spectator's.
C23_TurnManagement ==
  [][/\ (gameState' # gameState /\ gameState'.moveHistory # <<>>) =>
          /\ lastWriter' = players[gameState.currentPlayer]
          /\ gameState'.moveHistory[Len(gameState'.moveHistory)].player
               = gameState.currentPlayer
          /\ gameState'.currentPlayer = Other(gameState.currentPlayer)
     /\ gameState'.board # gameState.board =>
          lastWriter' \in {players.player1, players.player2}]_vars

\* The user seated as player2 has moved and the turn is player1's, while the
\* spectator is neither player.
C23_Witness ==
  /\ gameState.moveHistory # <<>>
  /\ LastMove.player = "player2"
  /\ lastWriter = players.player2
  /\ gameState.currentPlayer = "player1"
  /\ \E i \in 1..Len(spectators) :
       spectators[i] \notin {players.player1, players.player2}

\* The player has a piece that can step onto an empty square or jump over a
\* piece of the other player, by the squares of the board.
CanMove(player) ==
  \E sq \in Squares, d \in {-1, 1} \X {-1, 1} :
    LET next == <<sq[1] + d[1], sq[2] + d[2]>>
        beyond == <<next[1] + d[1], next[2] + d[2]>>
    IN  /\ gameState.board[sq].player = player
        /\ \/ gameState.board[sq].type = "king"
           \/ d[1] = (IF player = "player1" THEN 1 ELSE -1)
        /\ next \in Squares
        /\ \/ gameState.board[next] = NoPiece
           \/ /\ gameState.board[next].player = Other(player)
              /\ beyond \in Squares
              /\ gameState.board[beyond] = NoPiece

HasPieces(player) == \E sq \in Squares : gameState.board[sq].player = player

C25_OneAttemptPending ==
  /\ [](Cardinality({l \in LoopIds : retries[l].st = "awaiting"}) <= 1)
  /\ [][identifier' > identifier =>
          \A l \in LoopIds : retries[l].st # "awaiting"]_vars

\* The step hands exactly one IncrementalUpdate of session s to the channel:
\* written to the open channel or appended to the queue.
EmitsUpdate(s) ==
  LET isUpdate(f) == f.type = "Update" /\ f.doc = Name(s)
  IN  \/ /\ Len(webSocket'.sent) = Len(Sent) + 1
         /\ isUpdate(webSocket'.sent[Len(webSocket'.sent)])
         /\ messageQueue' = messageQueue
      \/ /\ Len(messageQueue') = Len(messageQueue) + 1
         /\ isUpdate(messageQueue'[Len(messageQueue')])
         /\ webSocket'.sent = Sent

\* C26: the counter of unsynced changes is never negative; a local edit of
\* a session's document adds 1 to it and emits one IncrementalUpdate; a
\* positive SyncStatus received by the session takes 1 from it unless it is
\* 0; and when it reads 0 after that, the session is synced.
C26_UnsyncedCounterRule ==
  /\ [](\A s \in Sessions : unsyncedChanges[s] >= 0)
  /\ [][\A s \in Sessions :
          /\ DocumentUpdate(s) =>
               /\ unsyncedChanges'[s] = unsyncedChanges[s] + 1
               /\ EmitsUpdate(s)
          /\ (ChannelMessage(Name(s), "SyncStatus") /\ providerMap[Name(s)] = s) =>
               /\ unsyncedChanges'[s] =
                    IF unsyncedChanges[s] = 0 THEN 0 ELSE unsyncedChanges[s] - 1
               /\ unsyncedChanges'[s] = 0 => isSynced'[s]]_vars

\* C27: a Sync step-1 frame or an incremental update applied to a session
\* that is not synced leaves it not synced, and an applied step-2 frame
\* leaves it synced.
C27_SyncedByStepTwoOnly ==
  [][\A s \in Sessions : providerMap[Name(s)] = s =>
       /\ ((ChannelMessage(Name(s), "SyncStepOne") \/ ChannelMessage(Name(s), "Update"))
             /\ ~isSynced[s]) => ~isSynced'[s]
       /\ ChannelMessage(Name(s), "SyncStepTwo") => isSynced'[s]]_vars

\* The session is synced on the open channel although its counter, set to
\* 1 by the handshake, has not been acknowledged: a step 2 was applied.
C27_Witness ==
  /\ isAttached["p1"]
  /\ webSocket.readyState = WsOpen
  /\ "SyncStepOne" \in {Sent[i].type : i \in 1..Len(Sent)}
  /\ isSynced["p1"]
  /\ unsyncedChanges["p1"] = 1
  /\ acks["p1"] = 0

\* The replies of the receiver that this step handed to the channel.
NewReplies ==
  {f \in {webSocket'.sent[i] : i \in 1..Len(webSocket'.sent)}
         \cup {messageQueue'[i] : i \in 1..Len(messageQueue')} :
     f.reply /\ f.n > sendCount}

\* C30: the session a frame is routed to answers a Sync step 1 with exactly
\* one reply, a Sync step 2, and a QueryAwareness with exactly one reply, an
\* Awareness snapshot, each under the document name of the frame; it sends no
\* reply to a frame of any other type.
C30_ReplyRule ==
  [][\A s \in Sessions, type \in ReceivedTypes :
       (ChannelMessage(Name(s), type) /\ providerMap[Name(s)] = s) =>
         IF type = "SyncStepOne"
         THEN \E f \in NewReplies :
                 NewReplies = {f} /\ f.type = "SyncStepTwo" /\ f.doc = Name(s)
         ELSE IF type = "QueryAwareness"
         THEN \E f \in NewReplies :
                 NewReplies = {f} /\ f.type = "Awareness" /\ f.doc = Name(s)
         ELSE NewReplies = {}]_vars

\* The channel carries a step 2 sent in reply to a step 1 and an Awareness
\* snapshot sent in reply to a QueryAwareness.
C30_Witness ==
  /\ \E i \in 1..Len(Sent) :
       Sent[i].reply /\ Sent[i].type = "SyncStepTwo" /\ Sent[i].doc = Name("p1")
  /\ \E i \in 1..Len(Sent) :
       Sent[i].reply /\ Sent[i].type = "Awareness" /\ Sent[i].doc = Name("p1")

\* The clock the store knows for a client: 0 for an unknown id.
KnownClock(clientID) ==
  IF awareness.meta[clientID].known THEN awareness.meta[clientID].clock ELSE 0

\* The received entry is one the acceptance rule lets through.
Acceptable(clientID, clock, state) ==
  \/ clock > KnownClock(clientID)
  \/ /\ clock = KnownClock(clientID)
     /\ state = NullState
     /\ awareness.states[clientID] # NullState

\* C28: a received awareness entry that is neither newer than the known
\* clock of its client, nor a null state at the known clock of a client with
\* a state, leaves the state, clock and lastUpdated of that client as they
\* are and is reported in no added, updated or removed list.
C28_AwarenessAcceptanceRule ==
  [][\A clientID \in Clients, clock \in 0..MaxClock, state \in States \cup {NullState} :
       (~Acceptable(clientID, clock, state) /\ AwarenessMessage(clientID, clock, state)) =>
         /\ awareness'.states[clientID] = awareness.states[clientID]
         /\ awareness'.meta[clientID] = awareness.meta[clientID]
         /\ awarenessUpdates' = <<>>]_vars

\* The store knows a state of the peer at a clock above 0, time has passed
\* since it was stored, and the last operation on the store reported nothing.
C28_Witness ==
  /\ awareness.meta[RemoteClient].known
  /\ awareness.meta[RemoteClient].clock > 0
  /\ awareness.states[RemoteClient] # NullState
  /\ awareness.meta[RemoteClient].lastUpdated < now
  /\ awarenessUpdates = <<>>

\* C29: no step lowers the clock stored for a client, whether a local state
\* is set, a frame applied, states removed or the store swept, and setting
\* the local state raises the local clock.
C29_ClockNeverDecreases ==
  [][/\ \A c \in Clients :
          /\ awareness.meta[c].known => awareness'.meta[c].known
          /\ awareness'.meta[c].clock >= awareness.meta[c].clock
     /\ \A state \in States \cup {NullState} :
          LocalState(state) =>
            awareness'.meta[LocalClient].clock > awareness.meta[LocalClient].clock]_vars

\* The sweep has evicted the state of the peer, whose clock stays known,
\* and the local clock has been raised.
C29_Witness ==
  /\ awareness.meta[RemoteClient].known
  /\ awareness.meta[RemoteClient].clock > 0
  /\ awareness.states[RemoteClient] = NullState
  /\ awarenessUpdates # <<>>
  /\ awarenessUpdates[Len(awarenessUpdates)].removed = <<RemoteClient>>
  /\ outdatedTimeout <= now - awareness.meta[RemoteClient].lastUpdated
  /\ awareness.meta[LocalClient].clock > 0

\* What a handler leaves of the program state, the scratch of the receiver
\* set aside.
Left(m) == [m EXCEPT !.encoder = <<>>, !.thrown = FALSE]

\* A session is attached to an open channel and gets frames.
Receiving(s) ==
  /\ webSocket # Null
  /\ webSocket.readyState = WsOpen
  /\ callbacks
  /\ providerMap[Name(s)] = s

\* The frame of the given type for session s is of no consequence: status
\* and channel of the manager, and synced, unsyncedChanges and authenticated
\* of the session stay as they are, and no reply is sent.
Contained(s, type) ==
  /\ status' = status
  /\ webSocket'.identifier = webSocket.identifier
  /\ webSocket'.readyState = webSocket.readyState
  /\ isSynced'[s] = isSynced[s]
  /\ unsyncedChanges'[s] = unsyncedChanges[s]
  /\ isAuthenticated'[s] = isAuthenticated[s]
  /\ NewReplies = {}

\* A well-formed frame after the frame of the given type is handled as it
\* would be without it.
Forgotten(s, type) ==
  \A later \in ReceivedTypes :
    Left(onMessage(onMessage(St, Name(s), type), Name(s), later))
      = Left(onMessage(St, Name(s), later))

C32_DecoderBounds ==
  [][(DecodeVarUint \/ DecodeVarInt \/ DecodeVarUint8Array \/ DecodeVarString
        \/ PeekVarString) =>
       /\ codec'.out.pos <= Len(codec.bytes) + 1
       /\ codec.out.pos > Len(codec.bytes) => codec'.out.kind # "value"]_vars

\* An open event reaches session s in this step: the channel opens while it
\* is attached, or it attaches and the recorded open event is replayed.
OpensFor(s) ==
  \/ /\ isAttached[s]
     /\ webSocket # Null
     /\ webSocket.readyState = WsConnecting
     /\ webSocket' # Null
     /\ webSocket'.readyState = WsOpen
  \/ ~isAttached[s] /\ isAttached'[s] /\ replayed'

\* C33: when the server denies the authentication of a session, the session
\* is unauthenticated and has emitted authenticationFailed once; it has
\* handed no frame to the channel, has not called its token provider, and
\* the channel and the status of the manager are as before. The token
\* provider is called only when an open event reaches the session.
C33_DenialIsNotRetried ==
  [][\A s \in Sessions :
       /\ (providerMap[Name(s)] = s /\ ChannelMessage(Name(s), "PermissionDenied")) =>
            /\ ~isAuthenticated'[s]
            /\ events'[s] = [getToken |-> 0, authenticationFailed |-> 1]
            /\ sendCount' = sendCount
            /\ tokenPending' = tokenPending
            /\ status' = status
            /\ webSocket'.identifier = webSocket.identifier
            /\ webSocket'.readyState = webSocket.readyState
            /\ identifier' = identifier
       /\ events'[s].getToken > 0 => OpensFor(s)]_vars

\* The server has denied a session whose Auth frame is on the open channel.
C33_Witness ==
  /\ events["p1"] = [getToken |-> 0, authenticationFailed |-> 1]
  /\ Receiving("p1")
  /\ status = Connected
  /\ connectionAttempt = 0
  /\ tokenPending["p1"] = 0
  /\ \E i \in 1..Len(Sent) : Sent[i].type = "Auth" /\ Sent[i].doc = Name("p1")
  /\ ~isAuthenticated["p1"]

\* C34: an open event that reaches an attached session calls its token
\* provider once; when the token cannot be obtained the session emits
\* authenticationFailed, is unauthenticated, hands no frame to the channel
\* and leaves unsyncedChanges as it is.
C34_TokenOncePerOpen ==
  [][\A s \in Sessions :
       /\ events'[s].getToken <= 1
       /\ OpensFor(s) => events'[s].getToken = 1
       /\ TokenFail(s) =>
            /\ events'[s] = [getToken |-> 0, authenticationFailed |-> 1]
            /\ ~isAuthenticated'[s]
            /\ sendCount' = sendCount
            /\ webSocket' = webSocket
            /\ messageQueue' = messageQueue
            /\ unsyncedChanges'[s] = unsyncedChanges[s]]_vars

\* The token of a session with unsynced edits could not be obtained on an
\* open channel: no Auth frame of it is on the channel or queued.
C34_Witness ==
  /\ events["p1"] = [getToken |-> 0, authenticationFailed |-> 1]
  /\ webSocket # Null
  /\ webSocket.readyState = WsOpen
  /\ isAttached["p1"]
  /\ tokenPending["p1"] = 0
  /\ unsyncedChanges["p1"] > 0
  /\ \A i \in 1..Len(Sent) : Sent[i].type # "Auth"
  /\ \A i \in 1..Len(messageQueue) : messageQueue[i].type # "Auth"

\* The frames of a sequence, by the number they were sent under.
QueuedNumbers(frames) == {frames[i].n : i \in 1..Len(frames)}

\* C35: a queued frame stays in the queue until it is written to the channel,
\* unless the application disconnects or destroys the manager.
C35_QueueKeptUntilWritten ==
  [][\A n \in QueuedNumbers(messageQueue) :
       \/ n \in QueuedNumbers(messageQueue')
       \/ webSocket' # Null /\ n \in QueuedNumbers(webSocket'.sent)
       \/ Disconnect
       \/ Destroy]_vars

\* C36: the first frame of a session on a channel is its Auth frame.
C36_AuthFrameFirst ==
  \A s \in Sessions :
    (webSocket # Null /\ \E i \in 1..Len(Sent) : Sent[i].doc = Name(s)) =>
      LET first == CHOOSE i \in 1..Len(Sent) :
                     /\ Sent[i].doc = Name(s)
                     /\ \A j \in 1..(i - 1) : Sent[j].doc # Name(s)
      IN Sent[first].type = "Auth"

\* C37: when the manager is Disconnected after a close was handled, no
\* attached session is synced or authenticated.
C37_DisconnectedSessionsReset ==
  (status = Disconnected /\ disconnectCode # 0) =>
    \A s \in Sessions : isAttached[s] => ~isSynced[s] /\ ~isAuthenticated[s]

\* The client ids of a list of an event.
Ids(list) == {list[i] : i \in 1..Len(list)}

\* C38: after an operation on the store, the clients its events report as
\* removed have no state, those reported as added or updated have one, and
\* every client with a state has a clock.
C38_EventsAgreeWithStore ==
  /\ \A i \in 1..Len(awarenessUpdates) :
       /\ \A c \in Ids(awarenessUpdates[i].removed) : awareness.states[c] = NullState
       /\ \A c \in Ids(awarenessUpdates[i].added) \cup Ids(awarenessUpdates[i].updated) :
            awareness.states[c] # NullState
  /\ \A c \in Clients : awareness.states[c] # NullState => awareness.meta[c].known

\* C39: detaching one of two attached sessions of one document name, the one
\* the name is not mapped to, leaves the name mapped to the other and puts no
\* Close frame on the channel or in the queue; detaching a session changes
\* the routing entry of no other document name.
C39_DetachRemovesOwnEntryOnly ==
  [][\A s \in Sessions :
       Detach(s) =>
         /\ \A d \in DocNames \ {Name(s)} : providerMap'[d] = providerMap[d]
         /\ \A t \in Sessions \ {s} :
              (isAttached[s] /\ isAttached[t] /\ Name(t) = Name(s)
                 /\ providerMap[Name(s)] = t) =>
                /\ providerMap'[Name(s)] = t
                /\ webSocket'.sent = Sent
                /\ messageQueue' = messageQueue]_vars

\* The squares of a board that hold a piece.
Occupied(board) == {sq \in Squares : board[sq] # NoPiece}

\* C40: in every state of the shared game each piece stands on the one square
\* whose row and column it carries, no piece id occurs on two squares, and the
\* pieces on the board and the captured pieces are 24 together; every move
\* applied is a move getValidMoves returns for the moved piece on the board
\* it is applied to, the piece standing on that board.
C40_PieceConservation ==
  /\ [](LET board == gameState.board IN
          /\ \A sq \in Occupied(board) : board[sq].row = sq[1] /\ board[sq].col = sq[2]
          /\ \A a, b \in Occupied(board) : board[a].id = board[b].id => a = b
          /\ Cardinality(Occupied(board)) + Len(gameState.capturedPieces) = 24)
  /\ [][\A u \in Users, sq \in Dark :
          (Play(u, sq[1], sq[2]) /\ gameState'.moveHistory # gameState.moveHistory) =>
            LET piece == localSelectedPiece[u]
                moves == getValidMoves(piece, gameState.board)
            IN /\ gameState.board[<<piece.row, piece.col>>] = piece
               /\ \E i \in 1..Len(moves) : moves[i].row = sq[1] /\ moves[i].col = sq[2]]_vars

====
